---- MODULE Spec2Model ----
(***************************************************************************)
(* Model of the Eteon relay (internal/app): the session store, the         *)
(* artifact store, delivery with format fallback and the message handler.  *)
(*                                                                         *)
(* Four specifications share the variables below:                          *)
(*   SpecHist   sessionState.appendTurn driven by arbitrary call sequences *)
(*   SpecStore  concurrent artifactStore.put / get callers                 *)
(*   SpecSend   sendWithFallback / editWithFallback over concrete texts    *)
(*   Spec       concurrently dispatched handlers (handleUserMessage,       *)
(*              handleModeSelection) over the shared tables                *)
(***************************************************************************)
EXTENDS Integers, Sequences, FiniteSets, TLC

\* ------------------------------------------------------------------ bounds
MaxCalls == 11

\* ------------------------------------------------------- program constants
maxHistoryEntries == 20

thinkingModeLow == "low"
thinkingModeMedium == "medium"
thinkingModeHigh == "high"
thinkingModeDynamic == "dynamic"

defaultThinkingMode == thinkingModeMedium

\* a nil *genai.Content
NilContent == [role |-> "nil", parts |-> <<>>]

Min(a, b) == IF a < b THEN a ELSE b

LastN(s, n) == SubSeq(s, Len(s) - n + 1, Len(s))

VARIABLES
    hist,       \* SpecHist: sessionState.history of the session under test
    histLog,    \* SpecHist: every entry ever appended, in order (ghost)
    nCalls,     \* SpecHist: number of appendTurn calls made (ghost)
    nPairs,     \* SpecHist: number of calls that appended a user and a model turn (ghost)
    fb,         \* SpecSend: the sendWithFallback / editWithFallback call in progress
    items,      \* artifactStore.items: key -> bundle
    counter,    \* artifactStore.counter (uint64)
    issuedKeys, \* keys in the order atomic.AddUint64 produced them (ghost)
    putLog,     \* [key, art] of every put that stored a bundle, in return order (ghost)
    cl,         \* SpecStore: per caller, the put in progress
    ret,        \* SpecStore: the call of put / get that returned last (ghost)
    sessions,   \* sessionManager.sessions: chat ID -> session (0: no entry)
    heap,       \* the sessionState objects allocated so far, by address 1, 2, ...
    wk,         \* Spec: per dispatched handler, its position and locals
    fn          \* SpecPure: the call of a pure function under test and its result

histVars == <<hist, histLog, nCalls, nPairs>>

sendVars == <<fb>>

storeVars == <<items, counter, issuedKeys, putLog>>

clientVars == <<cl, ret>>

relayVars == <<sessions, heap, wk>>

pureVars == <<fn>>

vars == <<hist, histLog, nCalls, nPairs, fb, items, counter, issuedKeys, putLog, cl, ret,
          sessions, heap, wk, fn>>

\* no pure function is under test
NoApplication == [op |-> "none", arg |-> <<>>, limit |-> 0, done |-> FALSE, out |-> <<>>]


\* ------------------------------------------------------------ format.go
\* A text is a sequence of tokens: a reserved character is a token of its
\* own, a run of other characters is one token.  The grave accent is written
\* by its code point.
Reserved ==
    {"\\", "_", "*", "[", "]", "(", ")", "~", "U+0060", ">", "#", "+", "-", "=",
     "|", "{", "}", ".", "!"}

RECURSIVE EscapeAllButBackslash(_)
EscapeAllButBackslash(text) ==
    IF text = <<>> THEN <<>>
    ELSE (IF Head(text) \in Reserved \ {"\\"}
          THEN <<"\\", Head(text)>>
          ELSE <<Head(text)>>) \o EscapeAllButBackslash(Tail(text))

RECURSIVE escapeMarkdownV2(_)
escapeMarkdownV2(text) ==
    IF text = <<>> THEN <<>>
    ELSE (IF Head(text) \in Reserved
          THEN <<"\\", Head(text)>>
          ELSE <<Head(text)>>) \o escapeMarkdownV2(Tail(text))

\* ------------------------------------------------- delivery with fallback
ModeMarkdownV2 == "MarkdownV2"

NoMarkup == <<>>

NoErr == <<>>

ErrParseEntities == <<"telegram: Bad Request: ", "can't parse entities">>
ErrParseMessage == <<"telegram: Bad Request: ", "can't parse message">>
ErrForbidden == <<"telegram: Forbidden: ", "bot was blocked by the user">>
ErrTimeout == <<"net/http: ", "request canceled">>

DeliveryErrors == {ErrParseEntities, ErrParseMessage, ErrForbidden, ErrTimeout}

Contains(err, fragment) == \E i \in 1..Len(err) : err[i] = fragment

isParseError(err) ==
    IF err = NoErr THEN FALSE
    ELSE Contains(err, "can't parse entities") \/ Contains(err, "can't parse message")

\* a nil *tele.SendOptions
NilOpts == [ParseMode |-> "nil", ReplyMarkup |-> NoMarkup, DisableWebPagePreview |-> FALSE]

EmptyOpts == [ParseMode |-> "", ReplyMarkup |-> NoMarkup, DisableWebPagePreview |-> FALSE]

NoPreview(markup) == [ParseMode |-> "", ReplyMarkup |-> markup, DisableWebPagePreview |-> TRUE]

\* a call of sendWithFallback ("send") or editWithFallback ("edit"):
\* its arguments, where it stands, the attempts made on the channel so far
\* and the error it returned
NewCall(op, text, opts) ==
    [op |-> op, text |-> text, opts |-> opts, stage |-> "first",
     attempts |-> <<>>, err |-> NoErr]

IdleCall == [op |-> "none", text |-> <<>>, opts |-> NilOpts, stage |-> "idle",
             attempts |-> <<>>, err |-> NoErr]

FirstOpts(opts) ==
    LET o == IF opts = NilOpts THEN EmptyOpts ELSE opts
    IN  IF o.ParseMode = "" THEN [o EXCEPT !.ParseMode = ModeMarkdownV2] ELSE o

RetryOpts(opts) ==
    LET o == IF opts = NilOpts THEN EmptyOpts ELSE opts
    IN  [o EXCEPT !.ParseMode = ModeMarkdownV2]

\* first a.bot.Send / a.bot.Edit of the call, answered with err
FallbackFirst(c, err) ==
    LET made == Append(c.attempts, [text |-> c.text, opts |-> FirstOpts(c.opts), err |-> err])
    IN  IF err = NoErr \/ ~isParseError(err)
        THEN [c EXCEPT !.attempts = made, !.stage = "returned", !.err = err]
        ELSE [c EXCEPT !.attempts = made, !.stage = "retry"]

\* second a.bot.Send / a.bot.Edit of the call, answered with err
FallbackRetry(c, err) ==
    LET made == Append(c.attempts, [text |-> escapeMarkdownV2(c.text),
                                    opts |-> RetryOpts(c.opts), err |-> err])
    IN  [c EXCEPT !.attempts = made, !.stage = "returned", !.err = err]

Delivered(c) ==
    c.stage = "returned" /\ c.err = NoErr

\* ------------------------------------------------------------ artifacts.go
MaxPuts == 3

PrefilledPuts == 8

NumClients == 2

Clients == 1..NumClients

\* a nil *responseArtifacts
NilArt == [Thoughts |-> <<<<"nil">>>>, Sources |-> <<>>, CodeSnippets |-> <<>>]

\* &responseArtifacts{}
EmptyArt == [Thoughts |-> <<>>, Sources |-> <<>>, CodeSnippets |-> <<>>]

DigitChars == <<"0", "1", "2", "3", "4", "5", "6", "7", "8", "9">>

\* strconv.FormatUint(id, 10): the decimal digits of id, most significant first
RECURSIVE FormatUint(_)
FormatUint(id) ==
    IF id < 10 THEN <<DigitChars[id + 1]>>
    ELSE Append(FormatUint(id \div 10), DigitChars[(id % 10) + 1])

\* the number a key of decimal digits denotes
DigitValue(ch) == CHOOSE d \in 0..9 : DigitChars[d + 1] = ch

RECURSIVE KeyNumber(_)
KeyNumber(key) ==
    IF key = <<>> THEN 0
    ELSE 10 * KeyNumber(SubSeq(key, 1, Len(key) - 1)) + DigitValue(key[Len(key)])

\* put up to the key: the nil check, atomic.AddUint64 and strconv.FormatUint
\* (the counter is a uint64; it cannot wrap within MaxPuts calls)
PutIssueNoNilCheck(ctr, art) ==
    [returned |-> FALSE, key |-> FormatUint(ctr + 1), counter |-> ctr + 1]

PutIssueLostUpdate(ctr, art) ==
    IF art = NilArt
    THEN [returned |-> TRUE, key |-> <<>>, counter |-> ctr]
    ELSE [returned |-> FALSE, key |-> FormatUint(ctr + 1), counter |-> ctr]

putIssue(ctr, art) ==
    IF art = NilArt
    THEN [returned |-> TRUE, key |-> <<>>, counter |-> ctr]
    ELSE [returned |-> FALSE, key |-> FormatUint(ctr + 1), counter |-> ctr + 1]

\* put from s.mu.Lock() on: s.items[key] = art
PutInsertDropOthers(its, key, art) ==
    [k \in {key} |-> art]

putInsert(its, key, art) ==
    [k \in DOMAIN its \cup {key} |-> IF k = key THEN art ELSE its[k]]

artifactGet(its, id) ==
    IF id \in DOMAIN its THEN [art |-> its[id], ok |-> TRUE]
    ELSE [art |-> NilArt, ok |-> FALSE]

\* the store as n sequential put(EmptyArt) calls leave it
RECURSIVE StoreAfter(_)
StoreAfter(n) ==
    IF n = 0
    THEN [items |-> <<>>, counter |-> 0, issuedKeys |-> <<>>, putLog |-> <<>>]
    ELSE LET st == StoreAfter(n - 1)
             r  == putIssue(st.counter, EmptyArt)
         IN  [items |-> putInsert(st.items, r.key, EmptyArt),
              counter |-> r.counter,
              issuedKeys |-> Append(st.issuedKeys, r.key),
              putLog |-> Append(st.putLog, [key |-> r.key, art |-> EmptyArt])]

NoCall == [op |-> "none", key |-> <<>>, art |-> NilArt, ok |-> FALSE]

ClientIdle == [pc |-> "idle", key |-> <<>>, art |-> NilArt]

\* ------------------------------------------------- sessionState.appendTurn
AppendTurnKeepFirst(history, user, model) ==
    LET h1 == IF user # NilContent THEN Append(history, user) ELSE history
        h2 == IF model # NilContent THEN Append(h1, model) ELSE h1
    IN  IF Len(h2) > maxHistoryEntries
        THEN SubSeq(h2, 1, maxHistoryEntries)
        ELSE h2

appendTurn(history, user, model) ==
    LET h1 == IF user # NilContent THEN Append(history, user) ELSE history
        h2 == IF model # NilContent THEN Append(h1, model) ELSE h1
    IN  IF Len(h2) > maxHistoryEntries
        THEN SubSeq(h2, Len(h2) - maxHistoryEntries + 1, Len(h2))
        ELSE h2

\* ------------------------------------------------------- relay: the data
NumWorkers == 2

NumChats == 2

Workers == 1..NumWorkers

Chats == 1..NumChats

Whitespace == {" ", "\n", "\n\n", "\t"}

\* strings.TrimSpace on a text of tokens
RECURSIVE TrimLeft(_)
TrimLeft(t) ==
    IF t # <<>> /\ Head(t) \in Whitespace THEN TrimLeft(Tail(t)) ELSE t

RECURSIVE TrimRight(_)
TrimRight(t) ==
    IF t # <<>> /\ t[Len(t)] \in Whitespace THEN TrimRight(SubSeq(t, 1, Len(t) - 1)) ELSE t

TrimSpace(t) == TrimRight(TrimLeft(t))

\* strings.Join(elems, sep) with a one-token separator
RECURSIVE Join(_, _)
Join(elems, sep) ==
    IF elems = <<>> THEN <<>>
    ELSE IF Len(elems) = 1 THEN elems[1]
    ELSE elems[1] \o <<sep>> \o Join(Tail(elems), sep)

\* genai.Part and the values its pointer fields hold when nil
NoCode == [nil |-> TRUE, Language |-> "", Code |-> <<>>]

NoResult == [nil |-> TRUE, Outcome |-> "", Output |-> <<>>]

NoBlob == [nil |-> TRUE, MIMEType |-> "", Data |-> <<>>]

NewPartFromText(t) ==
    [Text |-> t, Thought |-> FALSE, ExecutableCode |-> NoCode,
     CodeExecutionResult |-> NoResult, InlineData |-> NoBlob]

ThoughtPart(t) == [NewPartFromText(t) EXCEPT !.Thought = TRUE]

BlobPart(data, mimeType) ==
    [NewPartFromText(<<>>) EXCEPT !.InlineData = [nil |-> FALSE, MIMEType |-> mimeType, Data |-> data]]

NewContentFromParts(parts, role) == [role |-> role, parts |-> parts]

\* ---------------------------------------------- thinking modes (session.go)
parseThinkingMode(v) ==
    IF v \in {thinkingModeLow, thinkingModeMedium, thinkingModeHigh, thinkingModeDynamic}
    THEN v
    ELSE defaultThinkingMode

budgetTokens(m) ==
    CASE m = thinkingModeLow -> 4096
      [] m = thinkingModeMedium -> 16384
      [] m = thinkingModeHigh -> 32768
      [] m = thinkingModeDynamic -> -1
      [] OTHER -> 16384

label(m) ==
    CASE m = thinkingModeLow -> <<"Low ", "-", " 4,096 tokens">>
      [] m = thinkingModeMedium -> <<"Medium ", "-", " 16,384 tokens">>
      [] m = thinkingModeHigh -> <<"High ", "-", " 32,768 tokens">>
      [] m = thinkingModeDynamic -> <<"Dynamic reasoning">>
      [] OTHER -> <<"Medium ", "-", " 16,384 tokens">>

\* ------------------------------------------------ sessions (session.go)
\* &sessionState{thinking: m.defaultMode}; mu is the holder of the mutex, 0 if free
NewSession(defaultMode) == [mu |-> 0, history |-> <<>>, thinking |-> defaultMode]

conversationWith(history, user) == history \o <<user>>

\* currentThinking: the level returned and the level left in the session
currentThinking(thinking) ==
    IF thinking = ""
    THEN [value |-> defaultThinkingMode, stored |-> defaultThinkingMode]
    ELSE [value |-> thinking, stored |-> thinking]

setThinking(sess, mode) == [sess EXCEPT !.thinking = mode]

\* ------------------------------------------------ inbound messages (app.go)
MediaOrder == <<"Photo", "Document", "Video", "Audio", "Voice", "VideoNote">>

\* the attachments of msg in the order collectParts looks at them
MediaOf(msg) == SelectSeq(MediaOrder, LAMBDA k : k \in msg.Media)

\* the text and caption parts collectParts starts with
collectTextParts(msg) ==
    LET text    == TrimSpace(msg.Text)
        caption == TrimSpace(msg.Caption)
        p1      == IF text # <<>> THEN <<NewPartFromText(text)>> ELSE <<>>
    IN  IF caption # <<>> /\ caption # text
        THEN Append(p1, NewPartFromText(caption))
        ELSE p1

ErrGetFile == <<"get file: ", "telegram: file is too big">>
ErrDownload == <<"download file: ", "unexpected EOF">>
ErrEmptyMedia == <<"empty media payload">>

\* what the channel answers to bot.File and bot.Download for one attachment
FetchFileErr == [fileErr |-> TRUE, downloadErr |-> FALSE, data |-> <<>>, filePathMIME |-> ""]
FetchDownloadErr == [fileErr |-> FALSE, downloadErr |-> TRUE, data |-> <<>>, filePathMIME |-> ""]
FetchEmpty == [fileErr |-> FALSE, downloadErr |-> FALSE, data |-> <<>>, filePathMIME |-> ""]
FetchOk == [fileErr |-> FALSE, downloadErr |-> FALSE, data |-> <<"bytes">>, filePathMIME |-> "image/jpeg"]

FetchOutcomes == {FetchFileErr, FetchDownloadErr, FetchEmpty, FetchOk}

partFromFile(fetch, explicitMIME) ==
    IF fetch.fileErr THEN [part |-> NewPartFromText(<<>>), err |-> ErrGetFile]
    ELSE IF fetch.downloadErr THEN [part |-> NewPartFromText(<<>>), err |-> ErrDownload]
    ELSE IF Len(fetch.data) = 0 THEN [part |-> NewPartFromText(<<>>), err |-> ErrEmptyMedia]
    ELSE LET mimeType == IF explicitMIME # "" THEN explicitMIME
                         ELSE IF fetch.filePathMIME # "" THEN fetch.filePathMIME
                         ELSE "application/octet-stream"
         IN  [part |-> BlobPart(fetch.data, mimeType), err |-> NoErr]

\* ------------------------------------------- completion responses (app.go)
BlockedReasonUnspecified == "BLOCKED_REASON_UNSPECIFIED"

NoFeedback == [nil |-> TRUE, BlockReason |-> BlockedReasonUnspecified]

NilCandidate == [nil |-> TRUE, Content |-> NilContent, Citations |-> <<>>, GroundingChunks |-> <<>>]

Candidate(content) == [nil |-> FALSE, Content |-> content, Citations |-> <<>>, GroundingChunks |-> <<>>]

firstCandidate(resp) ==
    IF Len(resp.Candidates) = 0 THEN NilCandidate ELSE resp.Candidates[1]

\* the comparison with the unspecified reason turned around
IsBlockedInverted(resp) ==
    ~resp.PromptFeedback.nil /\ resp.PromptFeedback.BlockReason = BlockedReasonUnspecified

IsBlocked(resp) ==
    ~resp.PromptFeedback.nil /\ resp.PromptFeedback.BlockReason # BlockedReasonUnspecified

\* the role set, the reasoning parts left in
filterModelContentKeepAll(content) ==
    IF content = NilContent THEN NilContent
    ELSE [role |-> "model", parts |-> content.parts]

filterModelContent(content) ==
    IF content = NilContent THEN NilContent
    ELSE [role |-> "model", parts |-> SelectSeq(content.parts, LAMBDA part : ~part.Thought)]

\* a citation, or the Web of a grounding chunk; nil for a nil citation, a nil
\* chunk or a chunk without Web
SourceEntry(title, uri) == [nil |-> FALSE, Title |-> title, URI |-> uri]

NilEntry == [nil |-> TRUE, Title |-> <<>>, URI |-> <<>>]

\* the loop without the seen check
RECURSIVE CollectFromKeepRepeats(_, _)
CollectFromKeepRepeats(entries, sources) ==
    IF entries = <<>> THEN sources
    ELSE LET uri == TrimSpace(Head(entries).URI)
         IN  IF Head(entries).nil \/ uri = <<>>
             THEN CollectFromKeepRepeats(Tail(entries), sources)
             ELSE CollectFromKeepRepeats(Tail(entries),
                              Append(sources, [Title |-> TrimSpace(Head(entries).Title), URI |-> uri]))

\* collectSources: one pass over the citations, then one over the grounding
\* chunks, skipping nil entries, empty and already seen URIs
RECURSIVE CollectFrom(_, _)
CollectFrom(entries, sources) ==
    IF entries = <<>> THEN sources
    ELSE LET uri  == TrimSpace(Head(entries).URI)
             seen == {sources[i].URI : i \in 1..Len(sources)}
         IN  IF Head(entries).nil \/ uri = <<>> \/ uri \in seen
             THEN CollectFrom(Tail(entries), sources)
             ELSE CollectFrom(Tail(entries),
                              Append(sources, [Title |-> TrimSpace(Head(entries).Title), URI |-> uri]))

collectSources(candidate) ==
    IF candidate.nil THEN <<>>
    ELSE CollectFrom(candidate.GroundingChunks, CollectFrom(candidate.Citations, <<>>))

\* renderResponse: the loop over the parts, carrying mainParts, thoughtParts
\* and codeSnippets
RECURSIVE RenderParts(_, _)
RenderParts(parts, acc) ==
    IF parts = <<>> THEN acc
    ELSE LET part == Head(parts)
             text == TrimSpace(part.Text)
         IN  IF part.Thought
             THEN RenderParts(Tail(parts),
                    IF text # <<>> THEN [acc EXCEPT !.thoughtParts = Append(@, text)] ELSE acc)
             ELSE LET m1 == IF text # <<>> THEN Append(acc.mainParts, text) ELSE acc.mainParts
                      out == TrimSpace(part.CodeExecutionResult.Output)
                      m2 == IF ~part.CodeExecutionResult.nil /\ out # <<>>
                            THEN Append(m1, <<"Result:", "\n">> \o out)
                            ELSE m1
                      snippet == [Language |-> part.ExecutableCode.Language,
                                  Code |-> part.ExecutableCode.Code,
                                  Outcome |-> IF part.CodeExecutionResult.nil THEN ""
                                              ELSE part.CodeExecutionResult.Outcome,
                                  Output |-> IF part.CodeExecutionResult.nil THEN <<>>
                                             ELSE part.CodeExecutionResult.Output]
                      c2 == IF ~part.ExecutableCode.nil
                            THEN Append(acc.codeSnippets, snippet)
                            ELSE acc.codeSnippets
                  IN  RenderParts(Tail(parts),
                        [acc EXCEPT !.mainParts = m2, !.codeSnippets = c2])

renderResponse(resp) ==
    LET cand == firstCandidate(resp)
    IN  IF cand.nil \/ cand.Content = NilContent
        THEN [reply |-> <<>>, art |-> EmptyArt]
        ELSE LET acc == RenderParts(cand.Content.parts,
                           [mainParts |-> <<>>, thoughtParts |-> <<>>, codeSnippets |-> <<>>])
             IN  [reply |-> TrimSpace(Join(acc.mainParts, "\n\n")),
                  art |-> [Thoughts |-> acc.thoughtParts,
                           Sources |-> collectSources(cand),
                           CodeSnippets |-> acc.codeSnippets]]

showThoughtsUnique == "show_thoughts"
showSourcesUnique == "show_sources"
showCodeUnique == "show_code"

\* the sources button added whatever the bundle holds
buildResponseMarkupAllButtons(id, art) ==
    IF id = <<>> \/ art = NilArt THEN NoMarkup
    ELSE <<[unique |-> showThoughtsUnique, data |-> id],
           [unique |-> showSourcesUnique, data |-> id]>>
         \o (IF Len(art.CodeSnippets) > 0 THEN <<[unique |-> showCodeUnique, data |-> id]>> ELSE <<>>)

buildResponseMarkup(id, art) ==
    IF id = <<>> \/ art = NilArt THEN NoMarkup
    ELSE <<[unique |-> showThoughtsUnique, data |-> id]>>
         \o (IF Len(art.Sources) > 0 THEN <<[unique |-> showSourcesUnique, data |-> id]>> ELSE <<>>)
         \o (IF Len(art.CodeSnippets) > 0 THEN <<[unique |-> showCodeUnique, data |-> id]>> ELSE <<>>)

\* the fixed texts of app.go
MsgCouldNotProcess == <<"I could not process that input", ".">>
MsgPleaseSend == <<"Please send text or supported media", ".">>
MsgCouldNotComplete == <<"Eteon could not complete that request", ".">>
MsgBlocked == <<"The request was blocked by safety filters", ".">>
MsgNoContent == <<"No content received", ".">>

ModeConfirmation(mode) == <<"Thinking budget switched to ">> \o label(mode)

ErrUpstream == <<"genai: ", "deadline exceeded">>

\* --------------------------------------------- relay: handlers in flight
NilMessage == [nil |-> TRUE, Text |-> <<>>, Caption |-> <<>>, Media |-> {}, MIME |-> ""]

NoReq == [sent |-> FALSE, conversation |-> <<>>, budget |-> 0]

\* a handler that has not been dispatched
IdleWorker ==
    [pc |-> "idle", kind |-> "none", chat |-> 0, payload |-> "", msg |-> NilMessage,
     session |-> 0, media |-> <<>>, parts |-> <<>>, user |-> NilContent, req |-> NoReq,
     feedback |-> NoFeedback, reply |-> <<>>, art |-> NilArt, key |-> <<>>,
     call |-> IdleCall, outcome |-> "", sends |-> 0, delivered |-> 0,
     histAtLock |-> <<>>, thinkAtLock |-> ""]

\* a handler calls sendWithFallback(text, opts) as its last act; the locals it
\* no longer reads are dropped (of the request only that one was sent is kept)
StartSend(rec, text, opts, outcome) ==
    [rec EXCEPT !.call = NewCall("send", text, opts), !.pc = "send", !.outcome = outcome,
                !.sends = rec.sends + 1,
                !.msg = NilMessage, !.media = <<>>, !.parts = <<>>, !.user = NilContent,
                !.reply = <<>>, !.art = NilArt, !.payload = "",
                !.req = [NoReq EXCEPT !.sent = rec.req.sent]]

\* the notice of the media failure sent where text or media is asked for
AfterCollectWrongNotice(rec, sess) ==
    IF Len(rec.parts) = 0
    THEN StartSend(rec, MsgCouldNotProcess, NoPreview(NoMarkup), "nothing")
    ELSE LET user == NewContentFromParts(rec.parts, "user")
         IN  [rec EXCEPT !.user = user, !.msg = NilMessage, !.parts = <<>>,
                         !.req = [sent |-> TRUE,
                                  conversation |-> conversationWith(sess.history, user),
                                  budget |-> budgetTokens(currentThinking(sess.thinking).value)],
                         !.pc = "await"]

\* handleUserMessage after collectParts returned parts without error: either
\* the request for text or media, or the user turn, the conversation, the
\* configuration and the request to the completion service
AfterCollect(rec, sess) ==
    IF Len(rec.parts) = 0
    THEN StartSend(rec, MsgPleaseSend, NoPreview(NoMarkup), "nothing")
    ELSE LET user == NewContentFromParts(rec.parts, "user")
         IN  [rec EXCEPT !.user = user, !.msg = NilMessage, !.parts = <<>>,
                         !.req = [sent |-> TRUE,
                                  conversation |-> conversationWith(sess.history, user),
                                  budget |-> budgetTokens(currentThinking(sess.thinking).value)],
                         !.pc = "await"]

\* the session after the same steps: currentThinking may store the default
SessionAfterCollect(rec, sess) ==
    IF Len(rec.parts) = 0 THEN sess
    ELSE [sess EXCEPT !.thinking = currentThinking(sess.thinking).stored]

\* the n-th appended turn: distinct contents stand for distinct *genai.Content
HistTurn(role, n) == NewContentFromParts(<<NewPartFromText(<<n>>)>>, role)

HistAppendTurn(hasUser, hasModel) ==
    /\ nCalls < MaxCalls
    /\ LET n     == Len(histLog)
           user  == IF hasUser THEN HistTurn("user", n + 1) ELSE NilContent
           model == IF hasModel
                    THEN HistTurn("model", IF hasUser THEN n + 2 ELSE n + 1)
                    ELSE NilContent
       IN  /\ hist' = appendTurn(hist, user, model)
           /\ histLog' = histLog \o (IF hasUser THEN <<user>> ELSE <<>>)
                                 \o (IF hasModel THEN <<model>> ELSE <<>>)
    /\ nCalls' = nCalls + 1
    /\ nPairs' = IF hasUser /\ hasModel THEN nPairs + 1 ELSE nPairs

HistAppendPair == HistAppendTurn(TRUE, TRUE) /\ UNCHANGED <<sendVars, storeVars, clientVars, relayVars, pureVars>>
HistAppendUserOnly == HistAppendTurn(TRUE, FALSE) /\ UNCHANGED <<sendVars, storeVars, clientVars, relayVars, pureVars>>
HistAppendModelOnly == HistAppendTurn(FALSE, TRUE) /\ UNCHANGED <<sendVars, storeVars, clientVars, relayVars, pureVars>>
HistAppendNone == HistAppendTurn(FALSE, FALSE) /\ UNCHANGED <<sendVars, storeVars, clientVars, relayVars, pureVars>>

HistNext ==
    \/ HistAppendPair
    \/ HistAppendUserOnly
    \/ HistAppendModelOnly
    \/ HistAppendNone

InitHist ==
    /\ hist = <<>>
    /\ histLog = <<>>
    /\ nCalls = 0
    /\ nPairs = 0
    /\ fb = IdleCall
    /\ items = <<>>
    /\ counter = 0
    /\ issuedKeys = <<>>
    /\ putLog = <<>>
    /\ cl = [c \in Clients |-> ClientIdle]
    /\ ret = NoCall
    /\ fn = NoApplication
    /\ sessions = [c \in Chats |-> 0]
    /\ heap = <<>>
    /\ wk = [w \in Workers |-> IdleWorker]

SpecHist == InitHist /\ [][HistNext]_vars

\* C1: the stored history never holds more than 20 entries and always equals
\* the most recent min(appended, 20) appended entries in their original
\* order; after N calls that each appended a user and a model turn (and no
\* other call) that is the most recent min(2N, 20) entries.
HistoryIsRecentWindow ==
    /\ Len(hist) <= 20
    /\ hist = LastN(histLog, Min(Len(histLog), 20))
    /\ (nPairs = nCalls => /\ Len(histLog) = 2 * nPairs
                           /\ Len(hist) = Min(2 * nPairs, 20)
                           /\ hist = LastN(histLog, Min(2 * nPairs, 20)))

\* eleven pair calls: 22 entries appended, the two oldest dropped
HistoryTruncatedWitness ==
    /\ nPairs = nCalls
    /\ nPairs = 11
    /\ Len(histLog) = 22
    /\ Len(hist) = 20
    /\ hist[1] = histLog[3]

\* ---------------------------------------------------------------- SpecSend
MaxTextLen == 2

SendAlphabet == {"a", "*", "\\", "."}

RECURSIVE TextsUpTo(_)
TextsUpTo(n) ==
    IF n = 0 THEN {<<>>}
    ELSE LET shorter == TextsUpTo(n - 1)
         IN  shorter \cup {Append(t, ch) : t \in shorter, ch \in SendAlphabet}

SendOptsSet ==
    {NilOpts, NoPreview(NoMarkup),
     [ParseMode |-> "HTML", ReplyMarkup |-> NoMarkup, DisableWebPagePreview |-> FALSE]}

SendFirst ==
    /\ fb.op = "send" /\ fb.stage = "first"
    /\ \E err \in DeliveryErrors \cup {NoErr} : fb' = FallbackFirst(fb, err)
    /\ UNCHANGED <<histVars, storeVars, clientVars, relayVars, pureVars>>

SendRetry ==
    /\ fb.op = "send" /\ fb.stage = "retry"
    /\ \E err \in DeliveryErrors \cup {NoErr} : fb' = FallbackRetry(fb, err)
    /\ UNCHANGED <<histVars, storeVars, clientVars, relayVars, pureVars>>

EditFirst ==
    /\ fb.op = "edit" /\ fb.stage = "first"
    /\ \E err \in DeliveryErrors \cup {NoErr} : fb' = FallbackFirst(fb, err)
    /\ UNCHANGED <<histVars, storeVars, clientVars, relayVars, pureVars>>

EditRetry ==
    /\ fb.op = "edit" /\ fb.stage = "retry"
    /\ \E err \in DeliveryErrors \cup {NoErr} : fb' = FallbackRetry(fb, err)
    /\ UNCHANGED <<histVars, storeVars, clientVars, relayVars, pureVars>>

SendNext == SendFirst \/ SendRetry \/ EditFirst \/ EditRetry

InitSend ==
    /\ hist = <<>>
    /\ histLog = <<>>
    /\ nCalls = 0
    /\ nPairs = 0
    /\ \E op \in {"send", "edit"}, text \in TextsUpTo(MaxTextLen), opts \in SendOptsSet :
          fb = NewCall(op, text, opts)
    /\ items = <<>>
    /\ counter = 0
    /\ issuedKeys = <<>>
    /\ putLog = <<>>
    /\ cl = [c \in Clients |-> ClientIdle]
    /\ ret = NoCall
    /\ fn = NoApplication
    /\ sessions = [c \in Chats |-> 0]
    /\ heap = <<>>
    /\ wk = [w \in Workers |-> IdleWorker]

SpecSend == InitSend /\ [][SendNext]_vars

\* reads an escaped text back: a backslash followed by a reserved character
\* stands for that character, any other token stands for itself; a reserved
\* character without its backslash, or a backslash with nothing reserved
\* after it, makes the text unreadable
RECURSIVE ReadEscaped(_)
ReadEscaped(t) ==
    IF t = <<>> THEN [ok |-> TRUE, text |-> <<>>]
    ELSE IF Head(t) = "\\"
         THEN IF Len(t) >= 2 /\ t[2] \in Reserved
              THEN LET rest == ReadEscaped(SubSeq(t, 3, Len(t)))
                   IN  [ok |-> rest.ok, text |-> <<t[2]>> \o rest.text]
              ELSE [ok |-> FALSE, text |-> <<>>]
         ELSE IF Head(t) \in Reserved
              THEN [ok |-> FALSE, text |-> <<>>]
              ELSE LET rest == ReadEscaped(Tail(t))
                   IN  [ok |-> rest.ok, text |-> <<Head(t)>> \o rest.text]

NumReserved(t) == Cardinality({i \in 1..Len(t) : t[i] \in Reserved})

ParseRejections == {ErrParseEntities, ErrParseMessage}

\* C7: a call makes at most two delivery attempts; the first carries the
\* text as given; a second attempt exists exactly when the first was
\* rejected as unparsable markup, and it carries the original text with
\* every reserved character escaped exactly once; any other failure of the
\* first attempt, and any failure of the second, is what the call returns.
FallbackAtMostOneRetry ==
    /\ Len(fb.attempts) <= 2
    /\ (fb.stage = "first" <=> (fb.attempts = <<>>))
    /\ (Len(fb.attempts) >= 1 => fb.attempts[1].text = fb.text)
    /\ (fb.stage = "retry" =>
            Len(fb.attempts) = 1 /\ fb.attempts[1].err \in ParseRejections)
    /\ (fb.stage = "returned" =>
          /\ (Len(fb.attempts) = 2 <=> fb.attempts[1].err \in ParseRejections)
          /\ fb.err = fb.attempts[Len(fb.attempts)].err
          /\ (Len(fb.attempts) = 2 =>
                LET second == fb.attempts[2].text
                IN  /\ ReadEscaped(second) = [ok |-> TRUE, text |-> fb.text]
                    /\ Len(second) = Len(fb.text) + NumReserved(fb.text)
                    /\ fb.attempts[2].opts.ParseMode = ModeMarkdownV2))

\* a text with a backslash and a star was rejected as markup, resent escaped,
\* and the resend failed too: the call returned that failure after two attempts
FallbackRetriedWitness ==
    /\ fb.stage = "returned"
    /\ fb.text = <<"\\", "*">>
    /\ Len(fb.attempts) = 2
    /\ fb.attempts[2].text = <<"\\", "\\", "\\", "*">>
    /\ fb.err = ErrTimeout

\* --------------------------------------------------------------- SpecStore
BundleA == [Thoughts |-> <<<<"think">>>>, Sources |-> <<>>, CodeSnippets |-> <<>>]

BundleB == EmptyArt

StoreBundles == {BundleA, BundleB}

\* keys a caller may look up: every key the store can have issued, the next
\* one, and strings that are no key
ProbeKeys ==
    {FormatUint(n) : n \in 0..(PrefilledPuts + MaxPuts + 1)} \cup {<<>>, <<"0", "1">>, <<"x">>}

\* the number of calls the store had served when the run began (MaxPuts is
\* smaller than PrefilledPuts, so a run begun empty stays below it)
StoreBase == IF counter >= PrefilledPuts THEN PrefilledPuts ELSE 0

\* put(nil): returns the empty key at once
StorePutNil(c) ==
    /\ cl[c].pc = "idle"
    /\ LET r == putIssue(counter, NilArt)
       IN  /\ counter' = r.counter
           /\ IF r.returned
              THEN /\ ret' = [op |-> "put", key |-> r.key, art |-> NilArt, ok |-> FALSE]
                   /\ UNCHANGED <<cl, issuedKeys>>
              ELSE /\ cl' = [cl EXCEPT ![c] = [pc |-> "insert", key |-> r.key, art |-> NilArt]]
                   /\ issuedKeys' = Append(issuedKeys, r.key)
                   /\ UNCHANGED ret
    /\ UNCHANGED <<items, putLog, histVars, sendVars, relayVars, pureVars>>

\* put(art), art not nil, up to the key
StorePutIssue(c) ==
    /\ cl[c].pc = "idle"
    /\ counter < StoreBase + MaxPuts
    /\ \E art \in StoreBundles :
         LET r == putIssue(counter, art)
         IN  /\ counter' = r.counter
             /\ IF r.returned
                THEN /\ ret' = [op |-> "put", key |-> r.key, art |-> art, ok |-> FALSE]
                     /\ UNCHANGED <<cl, issuedKeys>>
                ELSE /\ cl' = [cl EXCEPT ![c] = [pc |-> "insert", key |-> r.key, art |-> art]]
                     /\ issuedKeys' = Append(issuedKeys, r.key)
                     /\ UNCHANGED ret
    /\ UNCHANGED <<items, putLog, histVars, sendVars, relayVars, pureVars>>

\* put from the map insert to the return of the key
StorePutInsert(c) ==
    /\ cl[c].pc = "insert"
    /\ items' = putInsert(items, cl[c].key, cl[c].art)
    /\ putLog' = Append(putLog, [key |-> cl[c].key, art |-> cl[c].art])
    /\ ret' = [op |-> "put", key |-> cl[c].key, art |-> cl[c].art, ok |-> TRUE]
    /\ cl' = [cl EXCEPT ![c] = ClientIdle]
    /\ UNCHANGED <<counter, issuedKeys, histVars, sendVars, relayVars, pureVars>>

StoreGet(c) ==
    /\ cl[c].pc = "idle"
    /\ \E id \in ProbeKeys :
         LET r == artifactGet(items, id)
         IN  ret' = [op |-> "get", key |-> id, art |-> r.art, ok |-> r.ok]
    /\ UNCHANGED <<cl, storeVars, histVars, sendVars, relayVars, pureVars>>

StoreNext ==
    \E c \in Clients :
        \/ StorePutNil(c)
        \/ StorePutIssue(c)
        \/ StorePutInsert(c)
        \/ StoreGet(c)

\* SpecStore starts from the new store or from one that has served
\* PrefilledPuts calls, so that keys of two digits are issued within MaxPuts
InitStore ==
    /\ hist = <<>>
    /\ histLog = <<>>
    /\ nCalls = 0
    /\ nPairs = 0
    /\ fb = IdleCall
    /\ \E n \in {0, PrefilledPuts} :
          LET st == StoreAfter(n)
          IN  /\ items = st.items
              /\ counter = st.counter
              /\ issuedKeys = st.issuedKeys
              /\ putLog = st.putLog
    /\ cl = [c \in Clients |-> ClientIdle]
    /\ ret = NoCall
    /\ fn = NoApplication
    /\ sessions = [c \in Chats |-> 0]
    /\ heap = <<>>
    /\ wk = [w \in Workers |-> IdleWorker]

SpecStore == InitStore /\ [][StoreNext]_vars

PutLogKeys == {putLog[i].key : i \in 1..Len(putLog)}

Inserting == {c \in Clients : cl[c].pc = "insert"}

\* C8: no two put calls return the same key, keys leave the counter in
\* strictly increasing numeric order (so none was issued before), and every
\* bundle a put stored is still under the key that put returned: no put
\* writes over the entry of another one.
ArtifactKeysUnique ==
    /\ \A i, j \in 1..Len(putLog) : i # j => putLog[i].key # putLog[j].key
    /\ \A i, j \in 1..Len(issuedKeys) :
          i < j => /\ KeyNumber(issuedKeys[i]) < KeyNumber(issuedKeys[j])
                   /\ issuedKeys[i] # issuedKeys[j]
    /\ \A i \in 1..Len(putLog) :
          /\ putLog[i].key \in DOMAIN items
          /\ items[putLog[i].key] = putLog[i].art
    /\ \A c \in Inserting :
          /\ cl[c].key \notin DOMAIN items
          /\ \A d \in Inserting : d # c => cl[d].key # cl[c].key

\* two overlapping puts took the keys 9 and 10 and returned in the other
\* order, with different bundles
ConcurrentPutsWitness ==
    \E i, j \in 1..Len(putLog) :
        /\ i < j
        /\ putLog[i].key = <<"1", "0">>
        /\ putLog[j].key = <<"9">>
        /\ putLog[i].art # putLog[j].art

\* C9: put(nil) returns the empty key and changes neither the table nor the
\* counter, no nil bundle is ever on its way into the table, and the n-th key
\* issued is the decimal form of n however many nil calls came before it.
NilPutIsNoOp ==
    /\ [](ret.op = "put" /\ ret.art = NilArt => ret.key = <<>> /\ ~ret.ok)
    /\ [][(ret' # ret /\ ret'.op = "put" /\ ret'.art = NilArt)
            => (items' = items /\ counter' = counter /\ issuedKeys' = issuedKeys
                /\ cl' = cl)]_vars
    /\ [](\A c \in Inserting : cl[c].art # NilArt)
    /\ [](\A k \in DOMAIN items : items[k] # NilArt)
    /\ [](/\ Len(issuedKeys) = counter
          /\ \A i \in 1..Len(issuedKeys) : issuedKeys[i] = FormatUint(i))

\* a nil put returned while another put held key 1 and had not stored it yet
NilPutWitness ==
    /\ ret = [op |-> "put", key |-> <<>>, art |-> NilArt, ok |-> FALSE]
    /\ counter = 1
    /\ items = <<>>
    /\ \E c \in Inserting : cl[c].key = <<"1">>

\* C10: the table only grows and never changes an entry; it holds exactly the
\* bundles puts have returned keys for, each under its key; a get of such a
\* key finds that bundle and a get of any other key finds nothing.
ArtifactTableAppendOnly ==
    /\ [](/\ DOMAIN items = PutLogKeys
          /\ \A i \in 1..Len(putLog) : items[putLog[i].key] = putLog[i].art)
    /\ [][\A k \in DOMAIN items : k \in DOMAIN items' /\ items'[k] = items[k]]_vars
    /\ [][(ret'.op = "get" /\ UNCHANGED <<cl, storeVars>>)
            => IF \E i \in 1..Len(putLog) : putLog[i].key = ret'.key
               THEN /\ ret'.ok
                    /\ \E i \in 1..Len(putLog) :
                          putLog[i].key = ret'.key /\ putLog[i].art = ret'.art
               ELSE ~ret'.ok /\ ret'.art = NilArt]_vars

\* key 9 was looked up and found with its bundle after keys 10 and 11 had
\* been stored as well
LookupAfterLaterPutsWitness ==
    /\ ret = [op |-> "get", key |-> <<"9">>, art |-> BundleA, ok |-> TRUE]
    /\ Len(putLog) = 11
    /\ putLog[9].key = <<"9">>
    /\ Inserting = {}

\* a key that was never issued, and one issued but not stored yet, are not found
LookupUnknownWitness ==
    /\ ret = [op |-> "get", key |-> <<"2">>, art |-> NilArt, ok |-> FALSE]
    /\ counter = 2
    /\ DOMAIN items = {<<"1">>}

\* -------------------------------------------------------------------- Spec
MsgBlank == [nil |-> FALSE, Text |-> <<" ">>, Caption |-> <<>>, Media |-> {}, MIME |-> ""]

MsgPhoto ==
    [nil |-> FALSE, Text |-> <<>>, Caption |-> <<" ", "look">>, Media |-> {"Photo"}, MIME |-> ""]

Messages == {MsgBlank, MsgPhoto}

Payloads == {"high", "turbo"}

AnswerContent == NewContentFromParts(<<NewPartFromText(<<"4">>)>>, "model")

ReasonedContent ==
    NewContentFromParts(<<ThoughtPart(<<"add">>), NewPartFromText(<<"a", "*", "b">>)>>, "model")

RespReasoned == [PromptFeedback |-> NoFeedback, Candidates |-> <<Candidate(ReasonedContent)>>]

RespBlocked ==
    [PromptFeedback |-> [nil |-> FALSE, BlockReason |-> "SAFETY"],
     Candidates |-> <<Candidate(AnswerContent)>>]

Responses == {RespReasoned, RespBlocked}

RelayDeliveryErrors == {ErrParseEntities, ErrForbidden}

\* Handlers and conversations are interchangeable, so one numbering of each is
\* explored: handlers are dispatched in the order of their numbers, and a
\* dispatched update belongs to a conversation already seen or to the next
\* new one.
Dispatchable(w) ==
    /\ wk[w].pc = "idle"
    /\ \A v \in Workers : v < w => wk[v].pc # "idle"

SeenChats == {c \in Chats : sessions[c] # 0 \/ \E v \in Workers : wk[v].chat = c}

NextChats == {c \in Chats : c <= Cardinality(SeenChats) + 1}

\* the handler notifies the user once more when the delivery failed
ReturnAfterNotice(rec) ==
    [IdleWorker EXCEPT !.pc = "done", !.kind = rec.kind, !.outcome = rec.outcome,
                       !.sends = rec.sends + (IF Delivered(rec.call) THEN 0 ELSE 1),
                       !.delivered = rec.delivered + (IF Delivered(rec.call) THEN 1 ELSE 0)]

\* the handler returns: its locals are gone; what stays on record is which
\* handler it was, the path it took, how many times it called sendWithFallback
\* and how many of these calls returned without error
Return(rec) ==
    [IdleWorker EXCEPT !.pc = "done", !.kind = rec.kind, !.outcome = rec.outcome,
                       !.sends = rec.sends,
                       !.delivered = rec.delivered + (IF Delivered(rec.call) THEN 1 ELSE 0)]

\* the handler returns without unlocking
ReleasedNever(h, w, rec) == h

\* the deferred session.mu.Unlock() of handleUserMessage
Released(h, w, rec) ==
    IF rec.kind = "message" THEN [h EXCEPT ![rec.session].mu = 0] ELSE h

\* sessionManager.get: the lookup under the read lock
GetLookup(rec) ==
    IF sessions[rec.chat] # 0
    THEN [rec EXCEPT !.session = sessions[rec.chat], !.pc = "lock"]
    ELSE [rec EXCEPT !.pc = "create"]

\* a text or media update arrives: handleUserMessage up to the lookup of
\* a.sessions.get (what the message holds is drawn where collectParts reads it)
DispatchMessage(w) ==
    /\ Dispatchable(w)
    /\ \E chat \in NextChats, nilMsg \in BOOLEAN :
         wk' = [wk EXCEPT ![w] =
                  IF nilMsg
                  THEN Return([wk[w] EXCEPT !.kind = "message", !.outcome = "noMessage"])
                  ELSE GetLookup([wk[w] EXCEPT !.kind = "message", !.chat = chat])]
    /\ UNCHANGED <<sessions, heap, histVars, sendVars, storeVars, clientVars, pureVars>>

\* a settings button is pressed: handleModeSelection up to the lookup of
\* a.sessions.get (the payload is drawn where setThinking uses it)
DispatchMode(w) ==
    /\ Dispatchable(w)
    /\ \E chat \in NextChats :
         wk' = [wk EXCEPT ![w] = GetLookup([wk[w] EXCEPT !.kind = "mode", !.chat = chat])]
    /\ UNCHANGED <<sessions, heap, histVars, sendVars, storeVars, clientVars, pureVars>>

\* sessionManager.get: the new session and its insert under the write lock
GetInsert(w) ==
    /\ wk[w].pc = "create"
    /\ heap' = Append(heap, NewSession(defaultThinkingMode))
    /\ sessions' = [sessions EXCEPT ![wk[w].chat] = Len(heap) + 1]
    /\ wk' = [wk EXCEPT ![w] = [wk[w] EXCEPT !.session = Len(heap) + 1, !.pc = "lock"]]
    /\ UNCHANGED <<histVars, sendVars, storeVars, clientVars, pureVars>>

\* session.mu.Lock() waits for every session to be free
CanLockWhenAllFree(s) == \A t \in DOMAIN heap : heap[t].mu = 0

\* session.mu.Lock() returns once no handler holds the mutex of the session
CanLock(s) == heap[s].mu = 0

\* handleUserMessage: session.mu.Lock(), then the text parts of collectParts
\* and, for a message without attachments, the steps up to the request
LockSessionFrom(w, messages) ==
    /\ wk[w].pc = "lock" /\ wk[w].kind = "message"
    /\ CanLock(wk[w].session)
    /\ \E msg \in messages :
         LET s    == wk[w].session
             sess == [heap[s] EXCEPT !.mu = w]
             rec  == [wk[w] EXCEPT !.msg = msg,
                                   !.parts = collectTextParts(msg),
                                   !.media = MediaOf(msg),
                                   !.histAtLock = heap[s].history,
                                   !.thinkAtLock = heap[s].thinking]
         IN  IF rec.media = <<>>
             THEN /\ wk' = [wk EXCEPT ![w] = AfterCollect(rec, sess)]
                  /\ heap' = [heap EXCEPT ![s] = SessionAfterCollect(rec, sess)]
             ELSE /\ wk' = [wk EXCEPT ![w] = [rec EXCEPT !.pc = "media"]]
                  /\ heap' = [heap EXCEPT ![s] = sess]
    /\ UNCHANGED <<sessions, histVars, sendVars, storeVars, clientVars, pureVars>>

LockSession(w) == LockSessionFrom(w, Messages)

\* collectParts: partFromFile for the next attachment and, after the last
\* one, the steps up to the request
CollectMedia(w) ==
    /\ wk[w].pc = "media"
    /\ \E fetch \in FetchOutcomes :
         LET r   == partFromFile(fetch, wk[w].msg.MIME)
             s   == wk[w].session
             rec == [wk[w] EXCEPT !.parts = Append(wk[w].parts, r.part),
                                  !.media = Tail(wk[w].media)]
         IN  IF r.err # NoErr
             THEN /\ wk' = [wk EXCEPT ![w] =
                             StartSend([wk[w] EXCEPT !.parts = <<>>, !.media = <<>>],
                                       MsgCouldNotProcess, NoPreview(NoMarkup), "mediaFail")]
                  /\ UNCHANGED heap
             ELSE IF rec.media # <<>>
             THEN /\ wk' = [wk EXCEPT ![w] = rec]
                  /\ UNCHANGED heap
             ELSE /\ wk' = [wk EXCEPT ![w] = AfterCollect(rec, heap[s])]
                  /\ heap' = [heap EXCEPT ![s] = SessionAfterCollect(rec, heap[s])]
    /\ UNCHANGED <<sessions, histVars, sendVars, storeVars, clientVars, pureVars>>

\* the user turn recorded in the history before the failure is reported
CompletionFailsAfterRecording(w) ==
    /\ wk[w].pc = "await"
    /\ heap' = [heap EXCEPT ![wk[w].session].history = appendTurn(@, wk[w].user, NilContent)]
    /\ wk' = [wk EXCEPT ![w] =
                StartSend(wk[w], MsgCouldNotComplete, NoPreview(NoMarkup), "upstreamFail")]
    /\ UNCHANGED <<sessions, histVars, sendVars, storeVars, clientVars, pureVars>>

\* GenerateContent returns an error
CompletionFails(w) ==
    /\ wk[w].pc = "await"
    /\ wk' = [wk EXCEPT ![w] =
                StartSend(wk[w], MsgCouldNotComplete, NoPreview(NoMarkup), "upstreamFail")]
    /\ UNCHANGED <<sessions, heap, histVars, sendVars, storeVars, clientVars, pureVars>>

\* GenerateContent returns one of the given responses: the safety check,
\* renderResponse and session.appendTurn
\* the model turn is recorded as the service sent it
modelTurnRaw(cand) ==
    IF ~cand.nil /\ cand.Content # NilContent THEN cand.Content ELSE NilContent

\* the second argument of session.appendTurn in handleUserMessage
modelTurn(cand) ==
    IF ~cand.nil /\ cand.Content # NilContent
    THEN filterModelContent(cand.Content)
    ELSE NilContent

CompletionAnswersFrom(w, responses) ==
    /\ wk[w].pc = "await"
    /\ \E resp \in responses :
         IF IsBlocked(resp)
         THEN /\ wk' = [wk EXCEPT ![w] =
                         StartSend([wk[w] EXCEPT !.feedback = resp.PromptFeedback],
                                   MsgBlocked, NoPreview(NoMarkup), "blocked")]
              /\ UNCHANGED heap
         ELSE LET r     == renderResponse(resp)
                  cand  == firstCandidate(resp)
                  model == modelTurn(cand)
                  s     == wk[w].session
              IN  /\ heap' = [heap EXCEPT ![s].history = appendTurn(@, wk[w].user, model)]
                  /\ wk' = [wk EXCEPT ![w] =
                              [wk[w] EXCEPT !.feedback = resp.PromptFeedback,
                                        !.reply = IF r.reply = <<>> THEN MsgNoContent ELSE r.reply,
                                        !.art = r.art,
                                        !.pc = "putIssue"]]
    /\ UNCHANGED <<sessions, histVars, sendVars, storeVars, clientVars, pureVars>>

CompletionAnswers(w) == CompletionAnswersFrom(w, Responses)

\* a.artifacts.put up to the key
PutIssue(w) ==
    /\ wk[w].pc = "putIssue"
    /\ LET r == putIssue(counter, wk[w].art)
       IN  /\ counter' = r.counter
           /\ IF r.returned
              THEN /\ wk' = [wk EXCEPT ![w] =
                               StartSend([wk[w] EXCEPT !.key = r.key], wk[w].reply,
                                         NoPreview(NoMarkup), "replied")]
                   /\ UNCHANGED issuedKeys
              ELSE /\ wk' = [wk EXCEPT ![w] = [wk[w] EXCEPT !.key = r.key, !.pc = "putInsert"]]
                   /\ issuedKeys' = Append(issuedKeys, r.key)
    /\ UNCHANGED <<items, putLog, sessions, heap, histVars, sendVars, clientVars, pureVars>>

\* a.artifacts.put from the insert on, then buildResponseMarkup
PutInsert(w) ==
    /\ wk[w].pc = "putInsert"
    /\ items' = putInsert(items, wk[w].key, wk[w].art)
    /\ putLog' = Append(putLog, [key |-> wk[w].key, art |-> wk[w].art])
    /\ wk' = [wk EXCEPT ![w] =
                StartSend(wk[w], wk[w].reply,
                          NoPreview(IF wk[w].key # <<>> THEN buildResponseMarkup(wk[w].key, wk[w].art)
                                    ELSE NoMarkup),
                          "replied")]
    /\ UNCHANGED <<counter, issuedKeys, sessions, heap, histVars, sendVars, clientVars, pureVars>>

\* sendWithFallback from its first a.bot.Send to its return (the channel
\* answers the first attempt with err, a second one with again), then the
\* handler returns
SendWithFallbackFrom(w, errors) ==
    /\ wk[w].pc = "send"
    /\ \E err \in errors \cup {NoErr} :
         LET first == FallbackFirst(wk[w].call, err)
         IN  IF first.stage = "retry"
             THEN \E again \in errors \cup {NoErr} :
                    wk' = [wk EXCEPT ![w] =
                             Return([wk[w] EXCEPT !.call = FallbackRetry(first, again)])]
             ELSE wk' = [wk EXCEPT ![w] = Return([wk[w] EXCEPT !.call = first])]
    /\ heap' = Released(heap, w, wk[w])
    /\ UNCHANGED <<sessions, histVars, sendVars, storeVars, clientVars, pureVars>>

SendWithFallback(w) == SendWithFallbackFrom(w, RelayDeliveryErrors)

\* handleModeSelection: session.mu.Lock()
ModeLock(w) ==
    /\ wk[w].pc = "lock" /\ wk[w].kind = "mode"
    /\ CanLock(wk[w].session)
    /\ heap' = [heap EXCEPT ![wk[w].session].mu = w]
    /\ wk' = [wk EXCEPT ![w] = [wk[w] EXCEPT !.pc = "set"]]
    /\ UNCHANGED <<sessions, histVars, sendVars, storeVars, clientVars, pureVars>>

\* handleModeSelection: setThinking, session.mu.Unlock(), and the confirmation
ModeSetFrom(w, payloads) ==
    /\ wk[w].pc = "set"
    /\ \E payload \in payloads :
         LET mode == parseThinkingMode(payload)
             s    == wk[w].session
         IN  /\ heap' = [heap EXCEPT ![s] = [setThinking(@, mode) EXCEPT !.mu = 0]]
             /\ wk' = [wk EXCEPT ![w] =
                         StartSend([wk[w] EXCEPT !.payload = payload], ModeConfirmation(mode),
                                   NoPreview(NoMarkup), "modeSet")]
    /\ UNCHANGED <<sessions, histVars, sendVars, storeVars, clientVars, pureVars>>

ModeSet(w) == ModeSetFrom(w, Payloads)

Next ==
    \E w \in Workers :
        \/ DispatchMessage(w)
        \/ DispatchMode(w)
        \/ GetInsert(w)
        \/ LockSession(w)
        \/ CollectMedia(w)
        \/ CompletionFails(w)
        \/ CompletionAnswers(w)
        \/ PutIssue(w)
        \/ PutInsert(w)
        \/ SendWithFallback(w)
        \/ ModeLock(w)
        \/ ModeSet(w)

Init ==
    /\ hist = <<>>
    /\ histLog = <<>>
    /\ nCalls = 0
    /\ nPairs = 0
    /\ fb = IdleCall
    /\ items = <<>>
    /\ counter = 0
    /\ issuedKeys = <<>>
    /\ putLog = <<>>
    /\ cl = [c \in Clients |-> ClientIdle]
    /\ ret = NoCall
    /\ fn = NoApplication
    /\ sessions = [c \in Chats |-> 0]
    /\ heap = <<>>
    /\ wk = [w \in Workers |-> IdleWorker]

Spec == Init /\ [][Next]_vars

\* ------------------------------------------------ properties of the relay
\* a handler holds a session from the return of a.sessions.get to its own return
HoldsSession(w) == wk[w].session # 0

\* a handler is between session.mu.Lock() and the matching Unlock()
HoldsLock(w) == HoldsSession(w) /\ heap[wk[w].session].mu = w

\* C2: sessionManager.get is an atomic get-or-create: all handlers that got a
\* session for one conversation got the same object, and it is the object the
\* table maps the conversation to.
GetIsAtomicGetOrCreate ==
    \A v \in Workers, w \in Workers :
        HoldsSession(v) /\ HoldsSession(w) /\ wk[v].chat = wk[w].chat
            => /\ wk[v].session = wk[w].session
               /\ sessions[wk[v].chat] = wk[v].session

\* C3: messages of one conversation are serialized: no two handleUserMessage
\* executions for the same conversation are between Lock and Unlock at once.
MessagesOfOneChatSerialized ==
    \A v \in Workers, w \in Workers :
        /\ v # w
        /\ wk[v].kind = "message" /\ wk[w].kind = "message"
        /\ wk[v].chat = wk[w].chat
        => ~(HoldsLock(v) /\ HoldsLock(w))

\* the response carries prompt feedback that names a reason
SignalsBlock(feedback) ==
    ~feedback.nil /\ feedback.BlockReason \notin {"", BlockedReasonUnspecified}

\* C4: a handler whose response signals a block reason has called
\* sendWithFallback once, with the fixed safety message and no keyboard, its
\* session's history is what it was when the handler took the lock, and the
\* handler has put no artifact bundle; having returned on that path it has
\* made that one call only.
BlockedStopsWithSafetyMessage ==
    \A w \in Workers :
        /\ wk[w].kind = "message" /\ SignalsBlock(wk[w].feedback)
           => /\ wk[w].pc = "send" /\ wk[w].outcome = "blocked"
              /\ wk[w].call.op = "send"
              /\ wk[w].call.text = <<"The request was blocked by safety filters", ".">>
              /\ wk[w].call.opts.ReplyMarkup = NoMarkup
              /\ wk[w].sends = 1
              /\ wk[w].key = <<>>
              /\ heap[wk[w].session].history = wk[w].histAtLock
        /\ wk[w].pc = "done" /\ wk[w].outcome = "blocked" => wk[w].sends = 1

\* a blocked request in a conversation that already has a recorded turn
BlockedAfterRecordedTurnWitness ==
    \E w \in Workers :
        /\ wk[w].pc = "send" /\ SignalsBlock(wk[w].feedback)
        /\ wk[w].call.text = MsgBlocked
        /\ Len(wk[w].histAtLock) = 2
        /\ heap[wk[w].session].history = wk[w].histAtLock
        /\ Len(putLog) = 1

\* the handler abandoned the message for a media or a completion failure
Abandoned(w) == wk[w].outcome \in {"mediaFail", "upstreamFail"}

\* C5: a handler that abandons its message because an attachment could not be
\* retrieved or the completion call failed leaves history and thinking level of
\* its session as they were when it took the lock and has put no artifact
\* bundle; in the media case no request was sent; and in every step a session's
\* history changes only by the handler holding that session whose request the
\* completion service has just answered, and the artifact table only by a
\* handler on that path.
AbandonedLeavesSessionUntouched ==
    /\ [](\A w \in Workers :
            wk[w].pc = "send" /\ Abandoned(w)
            => /\ heap[wk[w].session].history = wk[w].histAtLock
               /\ heap[wk[w].session].thinking = wk[w].thinkAtLock
               /\ wk[w].key = <<>>
               /\ (wk[w].outcome = "mediaFail" => ~wk[w].req.sent))
    /\ [][/\ \A s \in 1..Len(heap) :
               heap'[s].history # heap[s].history
               => \E w \in Workers :
                    /\ wk[w].pc = "await" /\ wk[w].session = s /\ wk[w].req.sent
                    /\ wk'[w].pc = "putIssue" /\ ~IsBlocked([PromptFeedback |-> wk'[w].feedback])
          /\ items' # items
               => \E w \in Workers :
                    /\ wk[w].pc = "putInsert" /\ wk[w].req.sent
                    /\ wk'[w].outcome = "replied"]_vars

\* one handler has returned after a media failure while another, whose
\* request was sent and failed, is about to notify the user
AbandonedBothWaysWitness ==
    \E v \in Workers, w \in Workers :
        /\ wk[v].pc = "done" /\ wk[v].outcome = "mediaFail" /\ wk[v].sends = 1
        /\ wk[w].pc = "send" /\ wk[w].outcome = "upstreamFail" /\ wk[w].req.sent
        /\ heap[wk[w].session].history = <<>>
        /\ items = <<>>

FailurePaths == {"mediaFail", "nothing", "upstreamFail", "blocked"}

\* the handler took a failure path, or a call of sendWithFallback it made
\* returned an error
Failed(w) == wk[w].outcome \in FailurePaths \/ wk[w].delivered < wk[w].sends

\* C6 as stated: every handler of an inbound message that returned after a
\* failure, a failed outbound send included, has delivered exactly one
\* notification to the user.
EveryFailureNotifiesOnce ==
    \A w \in Workers :
        wk[w].pc = "done" /\ wk[w].kind = "message" /\ Failed(w) => wk[w].delivered = 1

FixedMessage(outcome) ==
    CASE outcome = "mediaFail"    -> <<"I could not process that input", ".">>
      [] outcome = "nothing"      -> <<"Please send text or supported media", ".">>
      [] outcome = "upstreamFail" -> <<"Eteon could not complete that request", ".">>
      [] outcome = "blocked"      -> <<"The request was blocked by safety filters", ".">>

\* C6 amended: a handler on a failure path (media retrieval failure, nothing
\* to process, completion failure, safety block) calls sendWithFallback exactly
\* once, with the fixed message of that path and no keyboard, so the user gets
\* one notification when that call succeeds and none when it fails; and a
\* handler whose outbound send failed makes no further call.
FailureNotifiesOnceUnlessSendFails ==
    \A w \in Workers :
        /\ wk[w].pc = "send" /\ wk[w].outcome \in FailurePaths
           => /\ wk[w].sends = 1
              /\ wk[w].call.op = "send"
              /\ wk[w].call.text = FixedMessage(wk[w].outcome)
              /\ wk[w].call.opts.ReplyMarkup = NoMarkup
        /\ wk[w].pc = "done" /\ wk[w].kind = "message" /\ wk[w].outcome # "noMessage"
           => /\ wk[w].sends = 1
              /\ wk[w].delivered \in {0, 1}

\* one handler on a failure path has notified the user, another returned
\* after its one notification could not be delivered
FailedNotificationWitness ==
    \E v \in Workers, w \in Workers :
        /\ wk[v].pc = "done" /\ wk[v].outcome = "upstreamFail"
        /\ wk[v].sends = 1 /\ wk[v].delivered = 1
        /\ wk[w].pc = "done" /\ wk[w].outcome = "nothing"
        /\ wk[w].sends = 1 /\ wk[w].delivered = 0

\* the turns of a sequence of turns that hold reasoning: a part marked as a
\* thought, or a part whose text is the reasoning of one of the responses
ReasoningTextsOf(resp) ==
    IF Len(resp.Candidates) = 0 THEN {}
    ELSE LET ps == resp.Candidates[1].Content.parts
         IN  {ps[j].Text : j \in {k \in 1..Len(ps) : ps[k].Thought}}

ReasoningTexts == UNION {ReasoningTextsOf(r) : r \in Responses}

HoldsReasoning(turns) ==
    \E i \in 1..Len(turns) : \E j \in 1..Len(turns[i].parts) :
        turns[i].parts[j].Thought \/ turns[i].parts[j].Text \in ReasoningTexts

\* C11: no session's history holds a reasoning-marked part or the reasoning
\* text of a response, and neither does the conversation of any request made
\* to the completion service.
ReasoningNeverPersisted ==
    /\ \A s \in 1..Len(heap) : ~HoldsReasoning(heap[s].history)
    /\ \A w \in Workers : ~HoldsReasoning(wk[w].req.conversation)

\* a request that follows a recorded answer whose reasoning is in the stored
\* bundle: the request carries the earlier exchange and the new user turn
RequestAfterReasonedAnswerWitness ==
    \E w \in Workers :
        /\ wk[w].pc = "await" /\ wk[w].req.sent
        /\ Len(wk[w].req.conversation) = 3
        /\ wk[w].req.conversation[2].role = "model"
        /\ \E k \in DOMAIN items : items[k].Thoughts = <<<<"add">>>>

ThinkingModes == {thinkingModeLow, thinkingModeMedium, thinkingModeHigh, thinkingModeDynamic}

\* handler w has completed the only mode selection so far and is sending its
\* confirmation
ModeSelected(w) ==
    /\ wk[w].kind = "mode" /\ wk[w].pc = "send"
    /\ \A v \in Workers \ {w} : wk[v].kind # "mode"

\* the level w selected, as its confirmation names it
SelectedMode(w) == CHOOSE m \in ThinkingModes : wk[w].call.text = ModeConfirmation(m)

\* C16: once a mode selection has completed, the session of its conversation
\* stores the level parsed from the payload, every request composed for that
\* conversation before the next selection carries that level's budget, and
\* the stored level is always one of the four levels.
SelectedLevelGovernsRequests ==
    /\ [](\A w \in Workers :
            ModeSelected(w) => heap[sessions[wk[w].chat]].thinking = SelectedMode(w))
    /\ [][\A w, v \in Workers :
            (/\ ModeSelected(w)
             /\ wk[v].chat = wk[w].chat
             /\ ~wk[v].req.sent /\ wk'[v].req.sent /\ wk'[v].pc = "await")
            => wk'[v].req.budget = budgetTokens(SelectedMode(w))]_vars
    /\ [](\A s \in DOMAIN heap : heap[s].thinking \in ThinkingModes)

\* a message handler of conversation c is between Lock and Unlock
InFlight(c) ==
    \E v \in Workers : wk[v].kind = "message" /\ wk[v].chat = c /\ HoldsLock(v)

\* C22: a mode selection does not enter its critical section, and the level
\* stored for a conversation does not change, while a message of that
\* conversation is in flight; the request in flight carries the budget of
\* the level that was stored when the handler took the lock and composed
\* it; the selection holds the lock over no network call.
SelectionWaitsForRoundTrip ==
    /\ [](\A w \in Workers :
            wk[w].kind = "mode" /\ wk[w].pc = "set" => ~InFlight(wk[w].chat))
    /\ [][\A c \in Chats :
            (/\ sessions[c] # 0
             /\ heap'[sessions'[c]].thinking # heap[sessions[c]].thinking)
            => ~InFlight(c)]_vars
    /\ [](\A v \in Workers :
            wk[v].pc = "await"
            => wk[v].req.budget = budgetTokens(currentThinking(wk[v].thinkAtLock).value))
    /\ [](\A w \in Workers :
            wk[w].kind = "mode" /\ wk[w].pc = "send" => ~HoldsLock(w))

\* --------------------------------------------------------------- SpecReply
\* The answers of concurrent round trips: every handler has sent its request
\* and holds the lock of its own session; the completion service answers with
\* responses that differ in reasoning, sources and executed code.
CodePart(language, code) ==
    [NewPartFromText(<<>>) EXCEPT !.ExecutableCode = [nil |-> FALSE, Language |-> language, Code |-> code]]

ResultPart(outcome, output) ==
    [NewPartFromText(<<>>) EXCEPT !.CodeExecutionResult = [nil |-> FALSE, Outcome |-> outcome, Output |-> output]]

Response(content, citations, chunks) ==
    [PromptFeedback |-> NoFeedback,
     Candidates |-> <<[Candidate(content) EXCEPT !.Citations = citations, !.GroundingChunks = chunks]>>]

CitedContent == NewContentFromParts(<<NewPartFromText(<<"see ", "[", "1", "]">>)>>, "model")

ComputedContent ==
    NewContentFromParts(<<NewPartFromText(<<"2", "+", "2">>),
                          CodePart("PYTHON", <<"print", "(", "2", "+", "2", ")">>),
                          ResultPart("OUTCOME_OK", <<"4">>)>>, "model")

RespCited == Response(CitedContent, <<SourceEntry(<<"Go">>, <<"go.dev">>)>>, <<>>)

RespComputed == Response(ComputedContent, <<>>, <<>>)

RespCitedComputed ==
    Response(ComputedContent, <<>>, <<SourceEntry(<<"Sums">>, <<"sums.example">>)>>)

ReplyResponses == {RespReasoned, RespCited, RespComputed, RespCitedComputed}

\* handler w as handleUserMessage leaves it at the call of GenerateContent for
\* a photo with a caption, first message of its session
AwaitingHandler(w, chat, sess) ==
    LET photo == partFromFile(FetchOk, MsgPhoto.MIME).part
    IN  AfterCollect([IdleWorker EXCEPT !.kind = "message", !.chat = chat, !.session = w,
                                        !.parts = Append(collectTextParts(MsgPhoto), photo),
                                        !.histAtLock = sess.history,
                                        !.thinkAtLock = sess.thinking],
                     sess)

ChatOf(w) == ((w - 1) % NumChats) + 1

InitReply ==
    /\ hist = <<>>
    /\ histLog = <<>>
    /\ nCalls = 0
    /\ nPairs = 0
    /\ fb = IdleCall
    /\ items = <<>>
    /\ counter = 0
    /\ issuedKeys = <<>>
    /\ putLog = <<>>
    /\ cl = [c \in Clients |-> ClientIdle]
    /\ ret = NoCall
    /\ fn = NoApplication
    /\ sessions = [c \in Chats |->
                     IF \E w \in Workers : ChatOf(w) = c
                     THEN CHOOSE w \in Workers :
                            ChatOf(w) = c /\ \A v \in Workers : ChatOf(v) = c => v <= w
                     ELSE 0]
    /\ heap = [w \in Workers |-> [NewSession(defaultThinkingMode) EXCEPT !.mu = w]]
    /\ wk = [w \in Workers |->
               AwaitingHandler(w, ChatOf(w), [NewSession(defaultThinkingMode) EXCEPT !.mu = w])]

ReplyNext ==
    \E w \in Workers :
        \/ CompletionAnswersFrom(w, ReplyResponses)
        \/ PutIssue(w)
        \/ PutInsert(w)
        \/ SendWithFallback(w)

SpecReply == InitReply /\ [][ReplyNext]_vars

\* the buttons of a keyboard that open the view called unique
ButtonsFor(markup, unique) == {i \in 1..Len(markup) : markup[i].unique = unique}

selectThinkingModeUnique == "set_thinking_mode"

\* the menu of handleSettings: one button per level, the level as payload
SettingsMenu ==
    <<[unique |-> selectThinkingModeUnique, data |-> <<thinkingModeLow>>],
      [unique |-> selectThinkingModeUnique, data |-> <<thinkingModeMedium>>],
      [unique |-> selectThinkingModeUnique, data |-> <<thinkingModeHigh>>],
      [unique |-> selectThinkingModeUnique, data |-> <<thinkingModeDynamic>>]>>

SettingsBody(mode) == <<"Current thinking budget: ">> \o label(mode)

\* the /settings command arrives: handleSettings up to the lookup of
\* a.sessions.get
DispatchSettings(w) ==
    /\ Dispatchable(w)
    /\ \E chat \in NextChats :
         wk' = [wk EXCEPT ![w] = GetLookup([wk[w] EXCEPT !.kind = "settings", !.chat = chat])]
    /\ UNCHANGED <<sessions, heap, histVars, sendVars, storeVars, clientVars, pureVars>>

\* what session.currentThinking() can return to a caller that does not hold
\* session.mu: the stored level, or, racing with the setThinking of a mode
\* handler that holds the lock, a level that handler may be storing
UnlockedThinking(s) ==
    {currentThinking(heap[s].thinking).value}
    \cup (IF \E v \in Workers : wk[v].pc = "set" /\ wk[v].session = s
          THEN {parseThinkingMode(p) : p \in Payloads}
          ELSE {})

\* handleSettings: session.currentThinking() without session.mu, then the
\* menu
SettingsRead(w) ==
    /\ wk[w].pc = "lock" /\ wk[w].kind = "settings"
    /\ LET s == wk[w].session
       IN  /\ \E mode \in UnlockedThinking(s) :
                wk' = [wk EXCEPT ![w] =
                         StartSend(wk[w], SettingsBody(mode), NoPreview(SettingsMenu), "settings")]
           /\ heap' = [heap EXCEPT ![s].thinking = currentThinking(@).stored]
    /\ UNCHANGED <<sessions, histVars, sendVars, storeVars, clientVars, pureVars>>

RespNoCandidate == [PromptFeedback |-> NoFeedback, Candidates |-> <<>>]

RespAllReasoning ==
    Response(NewContentFromParts(<<ThoughtPart(<<"add">>)>>, "model"), <<>>, <<>>)

FullResponses == {RespReasoned, RespBlocked, RespNoCandidate, RespAllReasoning}

InitFull ==
    /\ hist = <<>>
    /\ histLog = <<>>
    /\ nCalls = 0
    /\ nPairs = 0
    /\ fb = IdleCall
    /\ items = <<>>
    /\ counter = 0
    /\ issuedKeys = <<>>
    /\ putLog = <<>>
    /\ cl = [c \in Clients |-> ClientIdle]
    /\ ret = NoCall
    /\ fn = NoApplication
    /\ sessions = [c \in Chats |-> 0]
    /\ heap = <<>>
    /\ wk = [w \in Workers |-> IdleWorker]

FullNext ==
    \E w \in Workers :
        \/ DispatchMessage(w)
        \/ DispatchMode(w)
        \/ DispatchSettings(w)
        \/ GetInsert(w)
        \/ LockSession(w)
        \/ CollectMedia(w)
        \/ CompletionFails(w)
        \/ CompletionAnswersFrom(w, FullResponses)
        \/ PutIssue(w)
        \/ PutInsert(w)
        \/ SendWithFallback(w)
        \/ ModeLock(w)
        \/ ModeSet(w)
        \/ SettingsRead(w)

SpecFull == InitFull /\ [][FullNext]_vars

\* handler w is at a call of appendTurn, conversationWith, currentThinking or
\* setThinking on its session
AtSessionAccess(w) ==
    \/ wk[w].kind = "message" /\ wk[w].pc \in {"media", "await"}
    \/ wk[w].kind = "mode" /\ wk[w].pc = "set"
    \/ wk[w].kind = "settings" /\ wk[w].pc = "lock"

\* C17: a handler that reads or writes the history or the thinking level of
\* a session holds that session's lock, in message handling, mode selection
\* and /settings; no step changes either field of an unlocked session.
SessionAccessedUnderLock ==
    /\ [](\A w \in Workers : AtSessionAccess(w) => heap[wk[w].session].mu = w)
    /\ [][\A s \in DOMAIN heap :
            (heap'[s].history # heap[s].history \/ heap'[s].thinking # heap[s].thinking)
            => (heap[s].mu # 0 \/ heap'[s].mu # 0)]_vars

\* C18: the history of every session alternates between user and model
\* turns: no two consecutive entries have the same role.
HistoryAlternates ==
    \A s \in DOMAIN heap :
        \A i \in 1..(Len(heap[s].history) - 1) :
            heap[s].history[i].role # heap[s].history[i + 1].role

\* C19: every turn recorded in a history, and every turn of a conversation
\* sent to the completion service, has at least one part.
TurnsHaveParts ==
    /\ \A s \in DOMAIN heap :
          \A i \in 1..Len(heap[s].history) : Len(heap[s].history[i].parts) >= 1
    /\ \A w \in Workers :
          wk[w].pc = "await" =>
              \A i \in 1..Len(wk[w].req.conversation) :
                  Len(wk[w].req.conversation[i].parts) >= 1

\* ---------------------------------------------------------------- SpecPure
\* collectSources, renderResponse and summarizeThoughts applied to inputs
\* drawn from bounded sets: fn holds the call and, once made, its result.
MaxEntries == 2

\* all sequences over elems of length at most n
RECURSIVE SeqsUpTo(_, _)
SeqsUpTo(elems, n) ==
    IF n = 0 THEN {<<>>}
    ELSE LET shorter == SeqsUpTo(elems, n - 1)
         IN  shorter \cup {Append(q, e) : q \in {r \in shorter : Len(r) = n - 1}, e \in elems}

SourceEntries ==
    {SourceEntry(<<"T">>, <<"u">>), SourceEntry(<<"S", " ">>, <<"u">>),
     SourceEntry(<<"S">>, <<" ", "u">>), SourceEntry(<<"T">>, <<"v">>),
     SourceEntry(<<"T">>, <<" ">>), NilEntry}

SourceInputs ==
    {[Candidate(NilContent) EXCEPT !.Citations = c, !.GroundingChunks = g] :
        c \in SeqsUpTo(SourceEntries, MaxEntries), g \in SeqsUpTo(SourceEntries, MaxEntries)}

Call(op, arg, limit) == [op |-> op, arg |-> arg, limit |-> limit, done |-> FALSE, out |-> <<>>]

SourcesApply ==
    /\ fn.op = "collectSources" /\ ~fn.done
    /\ fn' = [fn EXCEPT !.done = TRUE, !.out = collectSources(fn.arg)]
    /\ UNCHANGED <<histVars, sendVars, storeVars, clientVars, relayVars>>

\* the entries of a candidate that name a source, citations first, in the
\* order they are listed
NamedSources(candidate) ==
    SelectSeq(candidate.Citations \o candidate.GroundingChunks,
              LAMBDA e : ~e.nil /\ TrimSpace(e.URI) # <<>>)

\* the place of the first entry for uri in a sequence of entries
FirstFor(named, uri) ==
    CHOOSE i \in 1..Len(named) :
        /\ TrimSpace(named[i].URI) = uri
        /\ \A j \in 1..(i - 1) : TrimSpace(named[j].URI) # uri

\* C14: the source list holds every URI the candidate names exactly once, in
\* the order of the URIs' first occurrences with the citations before the
\* grounding chunks, each with the title of its first occurrence.
SourcesDistinctInDiscoveryOrder ==
    fn.op = "collectSources" /\ fn.done
    => LET out   == fn.out
           named == NamedSources(fn.arg)
       IN  /\ {out[i].URI : i \in 1..Len(out)} = {TrimSpace(named[i].URI) : i \in 1..Len(named)}
           /\ \A i \in 1..Len(out), j \in 1..Len(out) : i # j => out[i].URI # out[j].URI
           /\ \A i \in 1..Len(out), j \in 1..Len(out) :
                i < j => FirstFor(named, out[i].URI) < FirstFor(named, out[j].URI)
           /\ \A i \in 1..Len(out) :
                out[i].Title = TrimSpace(named[FirstFor(named, out[i].URI)].Title)

\* a grounding chunk repeats the URI of a citation under another title and
\* names a new one: the citation's title is kept and the new URI comes last
RepeatedSourceWitness ==
    /\ fn.op = "collectSources" /\ fn.done
    /\ fn.arg.Citations = <<SourceEntry(<<"T">>, <<"v">>), SourceEntry(<<"T">>, <<"u">>)>>
    /\ fn.arg.GroundingChunks = <<SourceEntry(<<"S">>, <<" ", "u">>), NilEntry>>
    /\ fn.out = <<[Title |-> <<"T">>, URI |-> <<"v">>], [Title |-> <<"T">>, URI |-> <<"u">>]>>

MaxParts == 2

\* the parts of a model answer: text, reasoning, executable code, the result
\* of an execution, and code and result together in one part
RenderedParts ==
    {NewPartFromText(<<"4">>), ThoughtPart(<<"sum">>),
     CodePart("PYTHON", <<"2+2">>), ResultPart("OUTCOME_OK", <<"4", "\n">>),
     [CodePart("PYTHON", <<"2+2">>) EXCEPT
        !.CodeExecutionResult = [nil |-> FALSE, Outcome |-> "OUTCOME_OK", Output |-> <<"4", "\n">>]]}

RenderInputs ==
    {Response(NewContentFromParts(parts, "model"), <<>>, <<>>) :
        parts \in SeqsUpTo(RenderedParts, MaxParts) \ {<<>>}}

RenderApply ==
    /\ fn.op = "renderResponse" /\ ~fn.done
    /\ fn' = [fn EXCEPT !.done = TRUE, !.out = renderResponse(fn.arg)]
    /\ UNCHANGED <<histVars, sendVars, storeVars, clientVars, relayVars>>

\* sub occurs in text as a run of consecutive tokens
IsInfix(sub, text) ==
    \E i \in 0..(Len(text) - Len(sub)) : SubSeq(text, i + 1, i + Len(sub)) = sub

\* C13: every part of the rendered response that carries an execution
\* result shows as a Result block in the reply, and the bundle holds a code
\* snippet recording that result's outcome and output, whichever part the
\* code came in; so a response with a result has a non-empty snippet list.
ResultRecordedOnSnippet ==
    fn.op = "renderResponse" /\ fn.done
    => LET parts == firstCandidate(fn.arg).Content.parts
           snips == fn.out.art.CodeSnippets
       IN  \A i \in 1..Len(parts) :
              ~parts[i].Thought /\ ~parts[i].CodeExecutionResult.nil
              => /\ IsInfix(<<"Result:", "\n">> \o TrimSpace(parts[i].CodeExecutionResult.Output),
                            fn.out.reply)
                 /\ Len(snips) > 0
                 /\ \E k \in 1..Len(snips) :
                       /\ snips[k].Outcome = parts[i].CodeExecutionResult.Outcome
                       /\ snips[k].Output = parts[i].CodeExecutionResult.Output

\* the tokens sentenceSplitter matches: ".", "?", "!" and line breaks
SentenceSeparators == {".", "?", "!", "\n", "\n\n"}

\* sentenceSplitter.Split(thought, -1): a run of separators splits once, a
\* separator at either end leaves an empty chunk there
RECURSIVE SplitSentences(_, _, _, _)
SplitSentences(text, chunks, chunk, inRun) ==
    IF text = <<>> THEN Append(chunks, chunk)
    ELSE IF Head(text) \in SentenceSeparators
         THEN IF inRun THEN SplitSentences(Tail(text), chunks, chunk, TRUE)
              ELSE SplitSentences(Tail(text), Append(chunks, chunk), <<>>, TRUE)
         ELSE SplitSentences(Tail(text), chunks, Append(chunk, Head(text)), FALSE)

\* the two loops of summarizeThoughts: the trimmed non-empty chunks of all
\* thoughts, in order
RECURSIVE CleanedChunks(_)
CleanedChunks(thoughts) ==
    IF thoughts = <<>> THEN <<>>
    ELSE LET chunks  == SplitSentences(Head(thoughts), <<>>, <<>>, FALSE)
             trimmed == [i \in 1..Len(chunks) |-> TrimSpace(chunks[i])]
         IN  SelectSeq(trimmed, LAMBDA c : c # <<>>) \o CleanedChunks(Tail(thoughts))

TruncationMarker == <<"...">>

\* the truncation without the marker
summarizeThoughtsCut(thoughts, limit) ==
    LET cleaned == CleanedChunks(thoughts)
    IN  IF Len(cleaned) > limit THEN SubSeq(cleaned, 1, limit) ELSE cleaned

summarizeThoughts(thoughts, limit) ==
    LET cleaned == CleanedChunks(thoughts)
    IN  IF Len(cleaned) > limit
        THEN Append(SubSeq(cleaned, 1, limit), TruncationMarker)
        ELSE cleaned

MaxFragments == 2
MaxLimit == 2

\* the limit handleShowThoughts passes
SummaryLimit == 5

ThoughtFragments ==
    {<<>>, <<"a">>, <<" ", "b", " ">>, <<"c", ".", " ", "d", "?">>,
     <<"!", "\n", " ", ".">>, <<"e", " ", "f", ".", "\n", "!", "g">>}

SevenChunkThoughts ==
    <<<<"a", ".", " ", "b", "?", "c", "!", "d">>, <<"e", "\n", "f", ".", ".", "g", ".">>>>

SummaryInputs ==
    {Call("summarizeThoughts", t, l) :
        t \in SeqsUpTo(ThoughtFragments, MaxFragments), l \in 0..MaxLimit}
    \cup {Call("summarizeThoughts", SevenChunkThoughts, SummaryLimit)}

SummarizeApply ==
    /\ fn.op = "summarizeThoughts" /\ ~fn.done
    /\ fn' = [fn EXCEPT !.done = TRUE, !.out = summarizeThoughts(fn.arg, fn.limit)]
    /\ UNCHANGED <<histVars, sendVars, storeVars, clientVars, relayVars>>

\* the fragments laid end to end, a line break between two fragments
AllThoughts(thoughts) == Join(thoughts, "\n")

\* the places of text where a sentence with something in it starts: the
\* first token after a separator (or of the text) of a separator-free run
\* that holds a token other than whitespace
SentenceEnd(text, a) ==
    CHOOSE b \in a..Len(text) :
        /\ \A k \in a..b : text[k] \notin SentenceSeparators
        /\ b = Len(text) \/ text[b + 1] \in SentenceSeparators

SentenceStarts(text) ==
    {a \in 1..Len(text) :
        /\ text[a] \notin SentenceSeparators
        /\ a = 1 \/ text[a - 1] \in SentenceSeparators
        /\ \E k \in a..SentenceEnd(text, a) : text[k] \notin Whitespace}

\* the n-th sentence of text, trimmed
Sentence(text, n) ==
    LET a == CHOOSE x \in SentenceStarts(text) :
                Cardinality({y \in SentenceStarts(text) : y < x}) = n - 1
    IN  TrimSpace(SubSeq(text, a, SentenceEnd(text, a)))

\* C15: summarizeThoughts returns the trimmed non-empty chunks of all
\* fragments in order when there are at most limit of them, and otherwise
\* limit+1 entries: the first limit chunks followed by the truncation marker.
SummaryIsChunksOrTruncated ==
    fn.op = "summarizeThoughts" /\ fn.done
    => LET text == AllThoughts(fn.arg)
           n    == Cardinality(SentenceStarts(text))
       IN  IF n <= fn.limit
           THEN /\ Len(fn.out) = n
                /\ \A i \in 1..n : fn.out[i] = Sentence(text, i)
           ELSE /\ Len(fn.out) = fn.limit + 1
                /\ \A i \in 1..fn.limit : fn.out[i] = Sentence(text, i)
                /\ fn.out[fn.limit + 1] = TruncationMarker

\* seven chunks summarized with limit 5: six entries, the marker last
SevenChunksWitness ==
    /\ fn.op = "summarizeThoughts" /\ fn.done
    /\ fn.arg = SevenChunkThoughts /\ fn.limit = SummaryLimit
    /\ Len(CleanedChunks(fn.arg)) = 7
    /\ fn.out = <<<<"a">>, <<"b">>, <<"c">>, <<"d">>, <<"e">>, TruncationMarker>>

\* Go slices: mem holds the backing arrays (the length of an array is its
\* capacity, unused slots hold nil), a slice names an array and a length
MaxSpare == 2

Slice(arr, len) == [arr |-> arr, len |-> len]

SliceValue(mem, sl) == SubSeq(mem[sl.arr], 1, sl.len)

NilSlots(n) == [i \in 1..n |-> NilContent]

\* make([]*genai.Content, 0, cap)
MakeSlice(mem, cap) == [mem |-> Append(mem, NilSlots(cap)), slice |-> Slice(Len(mem) + 1, 0)]

\* append(sl, x): in place when the capacity allows, else into a new array
\* of at least twice the capacity
GoAppend(mem, sl, x) ==
    IF sl.len < Len(mem[sl.arr])
    THEN [mem |-> [mem EXCEPT ![sl.arr][sl.len + 1] = x], slice |-> Slice(sl.arr, sl.len + 1)]
    ELSE [mem |-> Append(mem, SliceValue(mem, sl) \o <<x>> \o NilSlots(sl.len)),
          slice |-> Slice(Len(mem) + 1, sl.len + 1)]

\* append(sl, xs...)
RECURSIVE GoAppendAll(_, _, _)
GoAppendAll(mem, sl, xs) ==
    IF xs = <<>> THEN [mem |-> mem, slice |-> sl]
    ELSE LET one == GoAppend(mem, sl, Head(xs))
         IN  GoAppendAll(one.mem, one.slice, Tail(xs))

\* the user turn appended to s.history itself
conversationWithInPlace(mem, history, user) == GoAppend(mem, history, user)

\* conversationWith on the memory: a new array of len(s.history)+1 slots,
\* the history copied into it, the user turn behind it
conversationWithCopy(mem, history, user) ==
    LET made   == MakeSlice(mem, history.len + 1)
        copied == GoAppendAll(made.mem, made.slice, SliceValue(mem, history))
    IN  GoAppend(copied.mem, copied.slice, user)

\* a stored history of n turns in an array with spare more slots, as the
\* appends of appendTurn leave it
StoredHistory(n, spare) ==
    [mem |-> <<[i \in 1..(n + spare) |->
                  IF i <= n THEN HistTurn(IF i % 2 = 1 THEN "user" ELSE "model", i)
                  ELSE NilContent]>>,
     history |-> Slice(1, n),
     user |-> HistTurn("user", n + 1)]

ConversationInputs ==
    {Call("conversationWith", StoredHistory(n, spare), 0) :
        n \in 0..maxHistoryEntries, spare \in 0..MaxSpare}

ConversationApply ==
    /\ fn.op = "conversationWith" /\ ~fn.done
    /\ LET r == conversationWithCopy(fn.arg.mem, fn.arg.history, fn.arg.user)
       IN  fn' = [fn EXCEPT !.done = TRUE,
                            !.out = [mem |-> r.mem, convo |-> r.slice, written |-> FALSE]]
    /\ UNCHANGED <<histVars, sendVars, storeVars, clientVars, relayVars>>

Scribble == HistTurn("model", 0)

\* the caller overwrites an element of the returned sequence or appends to it
ConversationCallerWrites ==
    /\ fn.op = "conversationWith" /\ fn.done /\ ~fn.out.written
    /\ \/ \E i \in 1..fn.out.convo.len :
            fn' = [fn EXCEPT !.out.mem[fn.out.convo.arr][i] = Scribble, !.out.written = TRUE]
       \/ LET r == GoAppend(fn.out.mem, fn.out.convo, Scribble)
          IN  fn' = [fn EXCEPT !.out = [mem |-> r.mem, convo |-> r.slice, written |-> TRUE]]
    /\ UNCHANGED <<histVars, sendVars, storeVars, clientVars, relayVars>>

\* C23: conversationWith returns the stored history followed by the new
\* turn, at most 21 turns, and the stored history keeps its length and its
\* content, also after the caller has written to the returned sequence.
ConversationLeavesHistoryAlone ==
    fn.op = "conversationWith" /\ fn.done
    => LET stored == SliceValue(fn.arg.mem, fn.arg.history)
       IN  /\ SliceValue(fn.out.mem, fn.arg.history) = stored
           /\ ~fn.out.written
              => /\ SliceValue(fn.out.mem, fn.out.convo) = stored \o <<fn.arg.user>>
                 /\ SliceValue(fn.out.mem, fn.out.convo) = conversationWith(stored, fn.arg.user)
                 /\ fn.out.convo.len <= maxHistoryEntries + 1

\* the conversation of a full history in an array with room to spare was
\* composed, 21 turns, and the caller overwrote its first turn
FullHistoryComposedWitness ==
    /\ fn.op = "conversationWith" /\ fn.done /\ fn.out.written
    /\ fn.arg.history.len = maxHistoryEntries
    /\ Len(fn.arg.mem[1]) > maxHistoryEntries
    /\ fn.out.convo.len = maxHistoryEntries + 1
    /\ SliceValue(fn.out.mem, fn.out.convo)[1] = Scribble
    /\ SliceValue(fn.out.mem, fn.arg.history)[1] = HistTurn("user", 1)

InitPure ==
    /\ hist = <<>>
    /\ histLog = <<>>
    /\ nCalls = 0
    /\ nPairs = 0
    /\ fb = IdleCall
    /\ items = <<>>
    /\ counter = 0
    /\ issuedKeys = <<>>
    /\ putLog = <<>>
    /\ cl = [c \in Clients |-> ClientIdle]
    /\ ret = NoCall
    /\ sessions = [c \in Chats |-> 0]
    /\ heap = <<>>
    /\ wk = [w \in Workers |-> IdleWorker]
    /\ fn \in {Call("collectSources", c, 0) : c \in SourceInputs}
             \cup {Call("renderResponse", r, 0) : r \in RenderInputs}
             \cup SummaryInputs
             \cup ConversationInputs

PureNext ==
    \/ SourcesApply
    \/ RenderApply
    \/ SummarizeApply
    \/ ConversationApply
    \/ ConversationCallerWrites

SpecPure == InitPure /\ [][PureNext]_vars

\* ----------------------------------------------------------------- SpecPar
\* Handlers of several conversations side by side with the callbacks of the
\* show buttons: text messages, answers that are delivered, one payload.
MsgHello == [nil |-> FALSE, Text |-> <<"hi">>, Caption |-> <<>>, Media |-> {}, MIME |-> ""]

MsgUnavailable == <<"Reasoning summary is unavailable", ".">>
MsgSummarising == <<"Summarising thoughts", ".", ".", ".">>
MsgNoSources == <<"No sources available for this reply", ".">>
MsgNoCode == <<"No executable code was used for this reply", ".">>

\* strings.TrimRight(text, "\n")
RECURSIVE TrimNewlines(_)
TrimNewlines(t) ==
    IF t # <<>> /\ t[Len(t)] \in {"\n", "\n\n"} THEN TrimNewlines(SubSeq(t, 1, Len(t) - 1)) ELSE t

\* the texts written to a strings.Builder one after the other
RECURSIVE Written(_)
Written(texts) ==
    IF texts = <<>> THEN <<>> ELSE Head(texts) \o Written(Tail(texts))

\* handleShowThoughts: the summary of the stored thoughts, or the notice
ShowThoughtsPrompt(r) ==
    IF r.ok /\ Len(r.art.Thoughts) > 0
    THEN LET steps == summarizeThoughts(r.art.Thoughts, SummaryLimit)
             lines == [i \in 1..Len(steps) |-> <<"- ">> \o steps[i] \o <<"\n">>]
         IN  IF Len(steps) > 0
             THEN TrimNewlines(<<"Reasoning summary:", "\n">> \o Written(lines))
             ELSE MsgUnavailable
    ELSE MsgUnavailable

\* handleShowSources: the numbered list of the stored sources, or the notice
ShowSourcesBody(r) ==
    IF ~r.ok \/ Len(r.art.Sources) = 0 THEN MsgNoSources
    ELSE LET lines == [i \in 1..Len(r.art.Sources) |->
                         FormatUint(i) \o <<".", " ">>
                         \o (IF r.art.Sources[i].Title = <<>> THEN <<"Untitled">>
                             ELSE r.art.Sources[i].Title)
                         \o <<" ", "-", " ">> \o r.art.Sources[i].URI \o <<"\n">>]
         IN  TrimNewlines(<<"Sources:", "\n">> \o Written(lines))

\* escapeCode: a backslash before every backslash and every backtick
RECURSIVE escapeCode(_)
escapeCode(text) ==
    IF text = <<>> THEN <<>>
    ELSE (IF Head(text) \in {"\\", "U+0060"} THEN <<"\\", Head(text)>> ELSE <<Head(text)>>)
         \o escapeCode(Tail(text))

\* strings.ToLower(strings.TrimSpace(language)) for the languages of the
\* completion service
LowerLanguage(language) ==
    CASE language = "PYTHON" -> "python"
      [] language = "LANGUAGE_UNSPECIFIED" -> "language_unspecified"
      [] OTHER -> language

Fence == <<"U+0060", "U+0060", "U+0060">>

formatCodeSnippet(index, snippet) ==
    LET lower    == LowerLanguage(snippet.Language)
        language == IF lower = "" THEN "text" ELSE lower
    IN  <<"Code snippet ">> \o FormatUint(index) \o <<":", "\n">>
        \o Fence \o <<language, "\n">> \o escapeCode(snippet.Code) \o <<"\n">> \o Fence
        \o (IF snippet.Outcome # "" THEN <<"\n", "Outcome: ", snippet.Outcome>> ELSE <<>>)
        \o (IF TrimSpace(snippet.Output) # <<>>
            THEN <<"\n", "Output:", "\n">> \o Fence \o <<language, "\n">>
                 \o escapeCode(snippet.Output) \o <<"\n">> \o Fence
            ELSE <<>>)

\* handleShowCode: the stored snippets, or the notice
ShowCodeBody(r) ==
    IF ~r.ok \/ Len(r.art.CodeSnippets) = 0 THEN MsgNoCode
    ELSE Join([i \in 1..Len(r.art.CodeSnippets) |-> formatCodeSnippet(i, r.art.CodeSnippets[i])],
              "\n\n")

WithPreview == [ParseMode |-> "", ReplyMarkup |-> NoMarkup, DisableWebPagePreview |-> FALSE]

\* keys a button can carry: those of the stored bundles, and one of none
ButtonKeys == DOMAIN items \cup {<<"0">>}

\* a show button is pressed: the handler from a.artifacts.get to its first
\* call of sendWithFallback
DispatchShow(w) ==
    /\ Dispatchable(w)
    /\ \E chat \in NextChats, unique \in {showThoughtsUnique, showSourcesUnique, showCodeUnique},
          id \in ButtonKeys :
         LET r   == artifactGet(items, id)
             rec == [wk[w] EXCEPT !.kind = "show", !.chat = chat]
         IN  wk' = [wk EXCEPT ![w] =
                CASE unique = showThoughtsUnique ->
                       [StartSend(rec, MsgSummarising, NoPreview(NoMarkup), unique)
                          EXCEPT !.pc = "placeholder", !.reply = ShowThoughtsPrompt(r)]
                  [] unique = showSourcesUnique ->
                       StartSend(rec, ShowSourcesBody(r),
                                 IF ~r.ok \/ Len(r.art.Sources) = 0 THEN NoPreview(NoMarkup)
                                 ELSE WithPreview, unique)
                  [] unique = showCodeUnique ->
                       StartSend(rec, ShowCodeBody(r), NoPreview(NoMarkup), unique)]
    /\ UNCHANGED <<sessions, heap, histVars, sendVars, storeVars, clientVars, pureVars>>

\* handleShowThoughts: the placeholder is sent; an error is returned, a
\* delivered placeholder is edited into the summary
ShowPlaceholderFrom(w, errors) ==
    /\ wk[w].pc = "placeholder"
    /\ \E err \in errors \cup {NoErr} :
         LET first == FallbackFirst(wk[w].call, err)
             sent  == IF first.stage = "retry" THEN FallbackRetry(first, NoErr) ELSE first
         IN  wk' = [wk EXCEPT ![w] =
                IF Delivered(sent)
                THEN [wk[w] EXCEPT !.call = NewCall("edit", wk[w].reply, NoPreview(NoMarkup)),
                                   !.reply = <<>>, !.pc = "edit",
                                   !.delivered = wk[w].delivered + 1]
                ELSE Return([wk[w] EXCEPT !.call = sent])]
    /\ UNCHANGED <<sessions, heap, histVars, sendVars, storeVars, clientVars, pureVars>>

\* handleShowThoughts: editWithFallback from its first a.bot.Edit to its
\* return, then the handler returns
ShowEditFrom(w, errors) ==
    /\ wk[w].pc = "edit"
    /\ \E err \in errors \cup {NoErr} :
         LET first == FallbackFirst(wk[w].call, err)
         IN  wk' = [wk EXCEPT ![w] =
                Return([wk[w] EXCEPT !.call =
                          IF first.stage = "retry" THEN FallbackRetry(first, NoErr) ELSE first])]
    /\ UNCHANGED <<sessions, heap, histVars, sendVars, storeVars, clientVars, pureVars>>

ParAnswers == {RespReasoned}

ParErrors == {ErrForbidden}

\* the steps handler w can take
ParStep(w) ==
    \/ DispatchMessage(w)
    \/ DispatchMode(w)
    \/ DispatchShow(w)
    \/ GetInsert(w)
    \/ LockSessionFrom(w, {MsgHello})
    \/ CompletionFails(w)
    \/ CompletionAnswersFrom(w, ParAnswers)
    \/ PutIssue(w)
    \/ PutInsert(w)
    \/ SendWithFallbackFrom(w, ParErrors)
    \/ ModeLock(w)
    \/ ModeSetFrom(w, {thinkingModeHigh})
    \/ ShowPlaceholderFrom(w, ParErrors)
    \/ ShowEditFrom(w, ParErrors)

ParNext == \E w \in Workers : ParStep(w)

InitPar ==
    /\ hist = <<>>
    /\ histLog = <<>>
    /\ nCalls = 0
    /\ nPairs = 0
    /\ fb = IdleCall
    /\ items = <<>>
    /\ counter = 0
    /\ issuedKeys = <<>>
    /\ putLog = <<>>
    /\ cl = [c \in Clients |-> ClientIdle]
    /\ ret = NoCall
    /\ fn = NoApplication
    /\ sessions = [c \in Chats |-> 0]
    /\ heap = <<>>
    /\ wk = [w \in Workers |-> IdleWorker]

SpecPar == InitPar /\ [][ParNext]_vars

\* handler w has been dispatched and has not returned
Running(w) == wk[w].pc \notin {"idle", "done"}

\* C20: a handler that cannot take its next step is a message or mode
\* handler waiting for the lock of its session, and the handler holding that
\* lock belongs to the same conversation; a show callback can always take
\* its next step, and so can every handler of a conversation none of whose
\* handlers holds a lock, whatever round trips are in flight.
RoundTripBlocksOnlyOwnConversation ==
    \A w \in Workers :
        Running(w) /\ ~ENABLED ParStep(w)
        => /\ wk[w].kind \in {"message", "mode"}
           /\ wk[w].pc = "lock"
           /\ \E v \in Workers \ {w} :
                 /\ heap[wk[w].session].mu = v
                 /\ wk[v].chat = wk[w].chat

\* while one conversation's handler awaits the completion service holding
\* its lock, the handler of another conversation has got its answer and is
\* delivering the reply
ParallelRoundTripsWitness ==
    \E a, b \in Workers :
        /\ wk[a].pc = "await" /\ heap[wk[a].session].mu = a
        /\ wk[b].kind = "message" /\ wk[b].pc = "send" /\ wk[b].outcome = "replied"
        /\ wk[b].chat # wk[a].chat

\* ---------------------------------------------------------------- SpecLive
\* The message and mode handlers under fair scheduling: a handler that can
\* take a step (an external call that returns, a mutex that is free) takes
\* one. New updates need not arrive. Every path of handleUserMessage is
\* there: no message, nothing to process, media failure, upstream failure,
\* safety block, a reply delivered and a reply that cannot be delivered.
HandlerStep(w) ==
    \/ GetInsert(w)
    \/ LockSession(w)
    \/ CollectMedia(w)
    \/ CompletionFails(w)
    \/ CompletionAnswers(w)
    \/ PutIssue(w)
    \/ PutInsert(w)
    \/ SendWithFallbackFrom(w, {ErrForbidden})
    \/ ModeLock(w)
    \/ ModeSetFrom(w, {thinkingModeHigh})

LiveNext ==
    \E w \in Workers :
        \/ DispatchMessage(w)
        \/ DispatchMode(w)
        \/ HandlerStep(w)

InitLive ==
    /\ hist = <<>>
    /\ histLog = <<>>
    /\ nCalls = 0
    /\ nPairs = 0
    /\ fb = IdleCall
    /\ items = <<>>
    /\ counter = 0
    /\ issuedKeys = <<>>
    /\ putLog = <<>>
    /\ cl = [c \in Clients |-> ClientIdle]
    /\ ret = NoCall
    /\ fn = NoApplication
    /\ sessions = [c \in Chats |-> 0]
    /\ heap = <<>>
    /\ wk = [w \in Workers |-> IdleWorker]

SpecLive == InitLive /\ [][LiveNext]_vars /\ \A w \in Workers : WF_vars(HandlerStep(w))

\* handler w waits at session.mu.Lock() for the mutex another handler holds
QueuedBehind(w, v) ==
    /\ wk[w].pc = "lock" /\ v # w
    /\ heap[wk[w].session].mu = v

\* C21: every dispatched handler returns, whatever path it takes, and a
\* returned handler holds no session lock; so a message or mode selection
\* waiting for the lock of its session gets it and is processed.
HandlersTerminateAndRelease ==
    /\ \A w \in Workers : Running(w) ~> (wk[w].pc = "done")
    /\ \A w \in Workers :
          (\E v \in Workers : QueuedBehind(w, v)) ~> (wk[w].pc \notin {"lock", "idle"})
    /\ [](\A w \in Workers :
            wk[w].pc = "done" => \A s \in DOMAIN heap : heap[s].mu # w)

\* a handler waits for the lock of the session while a message handler of
\* the same conversation holds it awaiting the completion service
QueuedBehindRoundTripWitness ==
    \E w, v \in Workers :
        /\ QueuedBehind(w, v)
        /\ wk[v].kind = "message" /\ wk[v].pc = "await"
        /\ wk[v].chat = wk[w].chat


\* ---------------------------------------------------------------------
\* SpecCommit: handleUserMessage from the answer of GenerateContent to its
\* return, every handler in a conversation of its own whose lock it holds;
\* the conversations of the even handlers have a full history of ten
\* exchanges, the others none
PriorHistory(w) ==
    IF w % 2 = 0
    THEN [i \in 1..maxHistoryEntries |->
            HistTurn(IF i % 2 = 1 THEN "user" ELSE "model", i)]
    ELSE <<>>

PriorSession(w) ==
    [NewSession(defaultThinkingMode) EXCEPT !.mu = w, !.history = PriorHistory(w)]

InitCommit ==
    /\ hist = <<>>
    /\ histLog = <<>>
    /\ nCalls = 0
    /\ nPairs = 0
    /\ fb = IdleCall
    /\ items = <<>>
    /\ counter = 0
    /\ issuedKeys = <<>>
    /\ putLog = <<>>
    /\ cl = [c \in Clients |-> ClientIdle]
    /\ ret = NoCall
    /\ fn = NoApplication
    /\ sessions = [c \in Chats |->
                     IF \E w \in Workers : ChatOf(w) = c
                     THEN CHOOSE w \in Workers :
                            ChatOf(w) = c /\ \A v \in Workers : ChatOf(v) = c => v <= w
                     ELSE 0]
    /\ heap = [w \in Workers |-> PriorSession(w)]
    /\ wk = [w \in Workers |-> AwaitingHandler(w, ChatOf(w), PriorSession(w))]

CommitNext ==
    \E w \in Workers :
        \/ CompletionAnswersFrom(w, FullResponses)
        \/ PutIssue(w)
        \/ PutInsert(w)
        \/ SendWithFallback(w)

SpecCommit == InitCommit /\ [][CommitNext]_vars

\* the history after the turns were appended to it
Advanced(before, turns) ==
    LET all == before \o turns
    IN  LastN(all, Min(Len(all), maxHistoryEntries))

\* the turns a response adds: the user turn, and the model turn without its
\* reasoning parts when the first candidate of the response has a content
ExpectedTurns(resp, user) ==
    LET c == resp.Candidates
    IN  IF Len(c) > 0 /\ c[1].Content # NilContent
        THEN <<user, filterModelContent(c[1].Content)>>
        ELSE <<user>>

\* the handler rec has just processed resp
AnswerOf(resp, rec) ==
    /\ rec.feedback = resp.PromptFeedback
    /\ rec.art = renderResponse(resp).art
    /\ rec.reply = (IF renderResponse(resp).reply = <<>> THEN MsgNoContent
                    ELSE renderResponse(resp).reply)

FailedDelivery(w) ==
    /\ wk[w].pc = "send"
    /\ wk[w].outcome = "replied"
    /\ wk'[w].pc = "done"
    /\ wk'[w].delivered = wk[w].delivered

\* h is b advanced by one or two turns of which the first is a user turn
HasNewTurns(b, h) ==
    \E k \in 1..2 :
        /\ Len(h) >= k
        /\ h[Len(h) - k + 1].role = "user"
        /\ h = Advanced(b, SubSeq(h, Len(h) - k + 1, Len(h)))

\* the bundle logged under key is the one the table holds
StoredAsPut(its, key) ==
    /\ key \in DOMAIN its
    /\ \E i \in 1..Len(putLog) : putLog[i].key = key /\ putLog[i].art = its[key]

\* C25: when the final reply is about to be delivered the session history
\* already holds the new turns and the bundle is stored under the issued
\* key; a failed delivery changes neither, the handler returns with nothing
\* delivered and without another call of sendWithFallback; no stored bundle
\* is ever removed or replaced.
CommittedBeforeDelivery ==
    /\ [](\A w \in Workers :
            wk[w].pc = "send" /\ wk[w].outcome = "replied"
            => /\ HasNewTurns(wk[w].histAtLock, heap[wk[w].session].history)
               /\ wk[w].key # <<>> => StoredAsPut(items, wk[w].key))
    /\ [][\A w \in Workers :
            FailedDelivery(w)
            => /\ heap'[wk[w].session].history = heap[wk[w].session].history
               /\ items' = items
               /\ wk[w].key # <<>> => StoredAsPut(items', wk[w].key)
               /\ wk[w].sends = 1
               /\ wk'[w].sends = 1
               /\ wk'[w].delivered = 0]_vars
    /\ [][\A k \in DOMAIN items : k \in DOMAIN items' /\ items'[k] = items[k]]_vars

\* a handler returned from a failed delivery of its final reply: the history
\* of its conversation has moved on and what was put is still stored
FailedDeliveryKeepsCommitWitness ==
    \E w \in Workers :
        /\ wk[w].pc = "done"
        /\ wk[w].outcome = "replied"
        /\ wk[w].delivered = 0
        /\ wk[w].sends = 1
        /\ heap[w].history # PriorHistory(w)
        /\ Len(putLog) > 0
        /\ \A i \in 1..Len(putLog) : StoredAsPut(items, putLog[i].key)

====
